---- MODULE Spec2Model ----
(***************************************************************************)
(* The Unpoly server protocol library (package unpoly: options.py, up.py,  *)
(* adapter.py, contrib/django.py) as a state machine over one request      *)
(* cycle.                                                                  *)
(*                                                                         *)
(* Representation.  A Python str is a sequence of one-character strings,   *)
(* so that slicing, prefix tests, substring tests, splitting, case         *)
(* mapping, JSON encoding/decoding and percent-encoding are computed       *)
(* character by character as the code computes them.  A Python object is   *)
(* a tagged record (see "Python values").  A dict is the sequence of its   *)
(* <<key, value>> items in insertion order, and so are the dicts the code  *)
(* builds (serialized_options, query items, request headers and            *)
(* parameters); equality of values is Python's ==, which does not look at  *)
(* the order of a dict's items.  A set has no order the code fixes: where  *)
(* the code iterates a set (context_diff) the order is a parameter, and    *)
(* every order is an outcome.  A character is any code point; one that a   *)
(* string of this language cannot hold is written "U+" and the             *)
(* hexadecimal digits of its code.  An int is a 32-bit number: the ints    *)
(* beyond have no value here.  A float is an IEEE 754 double, held as the  *)
(* text repr() gives it.                                                   *)
(***************************************************************************)
EXTENDS Integers, Sequences, FiniteSets, TLC

(***************************************************************************)
(* Python str helpers                                                      *)
(***************************************************************************)

Uppers == <<"A","B","C","D","E","F","G","H","I","J","K","L","M",
            "N","O","P","Q","R","S","T","U","V","W","X","Y","Z">>

Lowers == <<"a","b","c","d","e","f","g","h","i","j","k","l","m",
            "n","o","p","q","r","s","t","u","v","w","x","y","z">>

Digits == <<"0","1","2","3","4","5","6","7","8","9">>

IsUpper(c) == \E n \in 1..Len(Uppers) : Uppers[n] = c

IsLower(c) == \E n \in 1..Len(Lowers) : Lowers[n] = c

IsDigit(c) == \E n \in 1..Len(Digits) : Digits[n] = c

\* A character outside the strings of this language is written by its code
\* point, "U+" and four to six hexadecimal digits: c is an ASCII character
IsAscii(c) ==
  \/ Len(c) = 1
  \/ /\ Len(c) = 6
     /\ SubSeq(c, 3, 4) = "00"
     /\ SubSeq(c, 5, 5) \in {"0", "1", "2", "3", "4", "5", "6", "7"}

\* str.lower() on one character.  The case mappings of the characters beyond
\* ASCII are not modelled
LowerChar(c) ==
  IF IsUpper(c) THEN Lowers[CHOOSE n \in 1..Len(Uppers) : Uppers[n] = c]
  ELSE CASE IsAscii(c) -> c

\* str.upper() on one character
UpperChar(c) ==
  IF IsLower(c) THEN Uppers[CHOOSE n \in 1..Len(Lowers) : Lowers[n] = c]
  ELSE CASE IsAscii(c) -> c

\* s.lower()
str_lower(s) == [i \in 1..Len(s) |-> LowerChar(s[i])]

\* s.capitalize(): first character upper-cased, the rest lower-cased
str_capitalize(s) ==
  [i \in 1..Len(s) |-> IF i = 1 THEN UpperChar(s[i]) ELSE LowerChar(s[i])]

\* s.replace(a, b) for single characters a, b
str_replace(s, a, b) == [i \in 1..Len(s) |-> IF s[i] = a THEN b ELSE s[i]]

\* s[n:]  (n is the 0-based start index of the slice)
str_from(s, n) == IF n >= Len(s) THEN <<>> ELSE SubSeq(s, n + 1, Len(s))

\* s.startswith(p)
str_startswith(s, p) == Len(p) <= Len(s) /\ SubSeq(s, 1, Len(p)) = p

\* sub in s
str_contains(s, sub) ==
  \E i \in 1..(Len(s) + 1) :
    i + Len(sub) - 1 <= Len(s) /\ SubSeq(s, i, i + Len(sub) - 1) = sub

\* index of the first occurrence of character c in s, 0 if none
str_find(s, c) ==
  IF \E i \in 1..Len(s) : s[i] = c
  THEN CHOOSE i \in 1..Len(s) : s[i] = c /\ \A j \in 1..(i - 1) : s[j] # c
  ELSE 0

\* s.split(c, 1): a one- or two-element sequence of strings
str_split1(s, c) ==
  LET i == str_find(s, c)
  IN  IF i = 0 THEN <<s>> ELSE <<SubSeq(s, 1, i - 1), SubSeq(s, i + 1, Len(s))>>

RECURSIVE str_split(_, _)
\* s.split(c): every piece between occurrences of c
str_split(s, c) ==
  LET i == str_find(s, c)
  IN  IF i = 0 THEN <<s>>
      ELSE <<SubSeq(s, 1, i - 1)>> \o str_split(SubSeq(s, i + 1, Len(s)), c)

RECURSIVE str_join(_, _)
\* sep.join(parts)
str_join(sep, parts) ==
  IF Len(parts) = 0 THEN <<>>
  ELSE IF Len(parts) = 1 THEN parts[1]
  ELSE parts[1] \o sep \o str_join(sep, Tail(parts))

DQ == "\""

\* the character U+0060, which a string of this language cannot hold
Backtick == "U+0060"

\* the character U+0008, likewise
Backspace == "U+0008"

\* the characters U+0020 .. U+007E in code order
Ascii ==
  << " ", "!", DQ, "#", "$", "%", "&", "'", "(", ")", "*", "+",
     ",", "-", ".", "/", "0", "1", "2", "3", "4", "5", "6", "7",
     "8", "9", ":", ";", "<", "=", ">", "?", "@", "A", "B", "C",
     "D", "E", "F", "G", "H", "I", "J", "K", "L", "M", "N", "O",
     "P", "Q", "R", "S", "T", "U", "V", "W", "X", "Y", "Z", "[",
     "\\", "]", "^", "_", Backtick, "a", "b", "c", "d", "e", "f", "g",
     "h", "i", "j", "k", "l", "m", "n", "o", "p", "q", "r", "s",
     "t", "u", "v", "w", "x", "y", "z", "{", "|", "}", "~" >>

HexDigits == <<"0","1","2","3","4","5","6","7","8","9","A","B","C","D","E","F">>

HexLower == <<"0","1","2","3","4","5","6","7","8","9","a","b","c","d","e","f">>

\* c is a hexadecimal digit, in either case
IsHex(c) == \E n \in 1..16 : HexDigits[n] = c \/ HexLower[n] = c

\* int(c, 16)
HexVal(c) == (CHOOSE n \in 1..16 : HexDigits[n] = c \/ HexLower[n] = c) - 1

\* "%02X" % code
Hex2(code) == <<HexDigits[(code \div 16) + 1], HexDigits[(code % 16) + 1]>>

RECURSIVE marker_code(_, _)
\* the number that the hexadecimal digits c[3..n] of "U+..." write
marker_code(c, n) ==
  IF n < 3 THEN 0 ELSE 16 * marker_code(c, n - 1) + HexVal(SubSeq(c, n, n))

RECURSIVE marker_hex(_, _)
\* "%0wX" % code
marker_hex(code, w) ==
  IF code = 0 /\ w <= 0 THEN ""
  ELSE marker_hex(code \div 16, w - 1) \o HexDigits[(code % 16) + 1]

\* ord(c)
CharCode(c) ==
  IF c = "\t" THEN 9
  ELSE IF c = "\n" THEN 10
  ELSE IF c = "\f" THEN 12
  ELSE IF c = "\r" THEN 13
  ELSE IF Len(c) = 1 THEN 31 + (CHOOSE i \in 1..Len(Ascii) : Ascii[i] = c)
  ELSE marker_code(c, Len(c))

\* chr(code)
CharOf(code) ==
  IF code = 9 THEN "\t"
  ELSE IF code = 10 THEN "\n"
  ELSE IF code = 12 THEN "\f"
  ELSE IF code = 13 THEN "\r"
  ELSE IF code >= 32 /\ code <= 126 THEN Ascii[code - 31]
  ELSE "U+" \o marker_hex(code, 4)

\* the character a decoder puts for bytes it cannot decode
ReplacementChar == "U+FFFD"

(***************************************************************************)
(* Python values.  The universe is None, bool, int, float, str, list,      *)
(* dict with str keys, and the _Sentinel.SENTINEL marker of options.py.    *)
(* A float is held as the text repr() gives it, a NaN with the name of     *)
(* its object besides.  A dict is the sequence of its <<key, value>>       *)
(* items in insertion order.  A str is the sequence of its characters.     *)
(***************************************************************************)

PyNone == [t |-> "none"]

PyBool(b) == [t |-> "bool", b |-> b]

PyInt(n) == [t |-> "int", n |-> n]

PyFloat(f) == [t |-> "float", f |-> f]

PyStr(s) == [t |-> "str", s |-> s]

PyDict(d) == [t |-> "dict", d |-> d]

PyList(l) == [t |-> "list", l |-> l]

SENTINEL == [t |-> "sentinel"]

EmptyDict == <<>>

IsNone(v) == v.t = "none"

IsDict(v) == v.t = "dict"

IsList(v) == v.t = "list"

IsStr(v) == v.t = "str"

\* repr() of the floats that are no numbers
F_nan == <<"n", "a", "n">>

\* a NaN: the one float whose identity shows in comparisons, so it carries
\* the name of its object
PyNaN(id) == [t |-> "float", f |-> F_nan, id |-> id]

\* json.decoder.NaN, the object the decoder returns for every NaN it reads
DecoderNaN == PyNaN("json.decoder.NaN")

F_inf == <<"i", "n", "f">>

F_neginf == <<"-", "i", "n", "f">>

\* repr() of the two float zeros
F_zero == <<"0", ".", "0">>

F_negzero == <<"-", "0", ".", "0">>

\* bool(v)
Truthy(v) ==
  CASE v.t = "none" -> FALSE
    [] v.t = "bool" -> v.b
    [] v.t = "int" -> v.n # 0
    [] v.t = "float" -> v.f \notin {F_zero, F_negzero}
    [] v.t = "str" -> Len(v.s) > 0
    [] v.t = "dict" -> Len(v.d) > 0
    [] v.t = "list" -> Len(v.l) > 0
    [] OTHER -> TRUE

\* the keys of a dict's items
DictKeys(d) == {d[i][1] : i \in 1..Len(d)}

\* k in d
DictHas(d, k) == \E i \in 1..Len(d) : d[i][1] = k

\* d[k], for a key of d
DictGet(d, k) == d[CHOOSE i \in 1..Len(d) : d[i][1] = k][2]

\* d[k] = v: a present key keeps its place, a new key goes last
DictPut(d, k, v) ==
  IF DictHas(d, k)
  THEN [i \in 1..Len(d) |-> IF d[i][1] = k THEN <<k, v>> ELSE d[i]]
  ELSE Append(d, <<k, v>>)

\* del d[k]
DictDel(d, k) == SelectSeq(d, LAMBDA it : it[1] # k)

RECURSIVE digits_end(_, _)
\* index after the run of decimal digits that starts at s[i]
digits_end(s, i) ==
  IF i <= Len(s) /\ IsDigit(s[i]) THEN digits_end(s, i + 1) ELSE i

RECURSIVE digits_value(_)
\* int() of a run of decimal digits
digits_value(ds) ==
  IF Len(ds) = 0 THEN 0
  ELSE 10 * digits_value(SubSeq(ds, 1, Len(ds) - 1))
       + ((CHOOSE n \in 1..10 : Digits[n] = ds[Len(ds)]) - 1)

\* the digits are those of a number up to 2147483647 (the ints of the model
\* are the 32-bit ones)
IsSmallDigits(ds) ==
  \/ Len(ds) <= 9
  \/ /\ Len(ds) = 10
     /\ \/ digits_value(SubSeq(ds, 1, 9)) < 214748364
        \/ digits_value(SubSeq(ds, 1, 9)) = 214748364 /\ digits_value(<<ds[10]>>) <= 7

\* the float is integral and equals an int of the model
FloatIsSmallInt(f) ==
  /\ Len(f) >= 3 /\ f[Len(f) - 1] = "." /\ f[Len(f)] = "0"
  /\ LET ds == IF f[1] = "-" THEN SubSeq(f, 2, Len(f) - 2) ELSE SubSeq(f, 1, Len(f) - 2)
     IN  (\A i \in 1..Len(ds) : IsDigit(ds[i])) /\ IsSmallDigits(ds)

FloatAsInt(f) ==
  IF f[1] = "-" THEN 0 - digits_value(SubSeq(f, 2, Len(f) - 2))
  ELSE digits_value(SubSeq(f, 1, Len(f) - 2))

RECURSIVE Canon(_)
\* the value up to Python's ==: True is 1, an integral float is its int, a
\* dict is its mapping whatever the order of its items
Canon(v) ==
  CASE v.t = "bool" -> PyInt(IF v.b THEN 1 ELSE 0)
    [] v.t = "float" -> IF FloatIsSmallInt(v.f) THEN PyInt(FloatAsInt(v.f)) ELSE v
    [] v.t = "list" -> PyList([i \in 1..Len(v.l) |-> Canon(v.l[i])])
    [] v.t = "dict" -> PyDict([k \in DictKeys(v.d) |-> Canon(DictGet(v.d, k))])
    [] OTHER -> v

\* v is a NaN
IsNaN(v) == v.t = "float" /\ v.f = F_nan

\* a == b.  A NaN differs from everything, itself included; inside a list or
\* a dict the comparison first takes the identity shortcut, so that a NaN
\* there equals the same object and no other NaN
PyEq(a, b) ==
  /\ ~IsNaN(a)
  /\ ~IsNaN(b)
  /\ Canon(a) = Canon(b)

(***************************************************************************)
(* json.loads / json.dumps as used by BaseAdapter                          *)
(***************************************************************************)

JFail == [ok |-> FALSE, v |-> PyNone, i |-> 0]

JOk(v, i) == [ok |-> TRUE, v |-> v, i |-> i]

\* json.decoder.WHITESPACE
JsonWs == {" ", "\t", "\n", "\r"}

RECURSIVE skip_ws(_, _)
\* WHITESPACE.match(s, i).end()
skip_ws(s, i) ==
  IF i <= Len(s) /\ s[i] \in JsonWs THEN skip_ws(s, i + 1) ELSE i

\* s[i..] starts with the word w
word_at(s, i, w) == i + Len(w) - 1 <= Len(s) /\ SubSeq(s, i, i + Len(w) - 1) = w

RECURSIVE strip_leading_zeros(_)
strip_leading_zeros(ds) ==
  IF Len(ds) > 0 /\ ds[1] = "0" THEN strip_leading_zeros(Tail(ds)) ELSE ds

RECURSIVE strip_trailing_zeros(_)
strip_trailing_zeros(ds) ==
  IF Len(ds) > 0 /\ ds[Len(ds)] = "0"
  THEN strip_trailing_zeros(SubSeq(ds, 1, Len(ds) - 1)) ELSE ds

\* n zeros
zeros(n) == [i \in 1..n |-> "0"]

RECURSIVE int_digits(_)
\* str(n) for n >= 0
int_digits(n) ==
  IF n < 10 THEN <<Digits[n + 1]>>
  ELSE int_digits(n \div 10) \o <<Digits[(n % 10) + 1]>>

\* the numbers a run of decimal digits writes, and back
digit_numbers(ds) == [i \in 1..Len(ds) |-> (CHOOSE n \in 1..10 : Digits[n] = ds[i]) - 1]

digit_chars(ns) == [i \in 1..Len(ns) |-> Digits[ns[i] + 1]]

\* Arithmetic on decimals of any length.  Dec(ds, pt) is the number
\* 0.d1 d2 ... dn * 10^pt, ds being the digits d1 .. dn as numbers
Dec(ds, pt) == [ds |-> ds, pt |-> pt]

\* the same number without a leading and without a trailing zero
dec_trim(ds, pt) ==
  LET a == IF ds[1] = 0 THEN 2 ELSE 1
      b == IF ds[Len(ds)] = 0 THEN Len(ds) - 1 ELSE Len(ds)
  IN  Dec(SubSeq(ds, a, b), pt - (a - 1))

\* 2 * x: a digit doubles and takes the carry of the digit after it, which
\* is 1 from 5 on
dec_double(x) ==
  LET n == Len(x.ds)
      D(j) == IF j = 0 \/ j > n THEN 0 ELSE x.ds[j]
  IN  dec_trim([j \in 1..(n + 1) |->
                  ((2 * D(j - 1)) % 10) + (IF D(j) >= 5 THEN 1 ELSE 0)],
               x.pt + 1)

\* x / 2: a digit halves and takes 5 from an odd digit before it
dec_half(x) ==
  LET n == Len(x.ds)
      D(j) == IF j = 0 \/ j > n THEN 0 ELSE x.ds[j]
  IN  dec_trim([j \in 1..(n + 1) |-> (D(j) \div 2) + 5 * (D(j - 1) % 2)], x.pt)

RECURSIVE dec_scale2(_, _)
\* x * 2^k, k of either sign
dec_scale2(x, k) ==
  IF k = 0 \/ Len(x.ds) = 0 THEN x
  ELSE IF k = 1 THEN dec_double(x)
  ELSE IF k = -1 THEN dec_half(x)
  ELSE dec_scale2(dec_scale2(x, k - (k \div 2)), k \div 2)

\* a < b
dec_less(a, b) ==
  LET top == IF a.pt > b.pt THEN a.pt ELSE b.pt
      la == Len(a.ds) + (top - a.pt)
      lb == Len(b.ds) + (top - b.pt)
      A(j) == IF j > top - a.pt /\ j <= la THEN a.ds[j - (top - a.pt)] ELSE 0
      B(j) == IF j > top - b.pt /\ j <= lb THEN b.ds[j - (top - b.pt)] ELSE 0
  IN  \E j \in 1..(IF la > lb THEN la ELSE lb) :
         A(j) < B(j) /\ \A i \in 1..(j - 1) : A(i) = B(i)

\* a is within the distance b: up to b when the interval is closed, short
\* of it otherwise
dec_within(a, b, closed) == IF closed THEN ~dec_less(b, a) ELSE dec_less(a, b)

RECURSIVE dec_strip(_)
\* the digits without trailing zeros
dec_strip(ds) ==
  IF Len(ds) > 0 /\ ds[Len(ds)] = 0 THEN dec_strip(SubSeq(ds, 1, Len(ds) - 1)) ELSE ds

RECURSIVE dec_incr(_)
\* the digits of the whole number ds, plus one
dec_incr(ds) ==
  IF Len(ds) = 0 THEN <<1>>
  ELSE IF ds[Len(ds)] < 9
    THEN SubSeq(ds, 1, Len(ds) - 1) \o <<ds[Len(ds)] + 1>>
  ELSE dec_incr(SubSeq(ds, 1, Len(ds) - 1)) \o <<0>>

\* 2^52 and 2^53: the mantissa m of a double m * 2^k is below 2^53, and
\* from 2^52 on unless k = MinExp
Two52 == <<4, 5, 0, 3, 5, 9, 9, 6, 2, 7, 3, 7, 0, 4, 9, 6>>

Two53 == <<9, 0, 0, 7, 1, 9, 9, 2, 5, 4, 7, 4, 0, 9, 9, 2>>

\* the exponents k of the doubles m * 2^k (DBL_MIN_EXP - DBL_MANT_DIG - 1
\* and DBL_MAX_EXP - DBL_MANT_DIG)
MinExp == -1074

MaxExp == 971

\* x >= 2^53
dec_overlong(x) ==
  \/ x.pt > 16
  \/ x.pt = 16 /\ ~dec_less(x, Dec(Two53, 16))

RECURSIVE dec_settle(_, _)
\* w = v / 2^k with k not above the exponent of v's double: halve until the
\* whole part is a mantissa
dec_settle(w, k) ==
  IF dec_overlong(w) THEN dec_settle(dec_half(w), k + 1) ELSE [w |-> w, k |-> k]

\* the whole number nearest to w, the even one of two equally near
dec_round(w) ==
  LET n == Len(w.ds)
      whole == IF w.pt <= 0 THEN <<>>
               ELSE [j \in 1..w.pt |-> IF j <= n THEN w.ds[j] ELSE 0]
      first == IF w.pt < 0 \/ w.pt + 1 > n THEN 0 ELSE w.ds[w.pt + 1]
      more == \E j \in (w.pt + 2)..n : j >= 1 /\ w.ds[j] # 0
      odd == w.pt > 0 /\ whole[w.pt] % 2 = 1
  IN  IF first > 5 \/ (first = 5 /\ (more \/ odd)) THEN dec_incr(whole) ELSE whole

\* a lower bound of floor(log2(v)) - 52 for v = 0.ds * 10^decpt, at most six
\* below it: log2(10) = 3.321928...
exp_estimate(decpt) ==
  LET e == (((decpt - 1) * 3321928) \div 1000000) - 53
  IN  IF e < MinExp THEN MinExp ELSE e

\* float(v) for v = 0.ds * 10^decpt > 0, as the mantissa m (the digits of a
\* whole number, none for zero) and the exponent k of the nearest double
\* m * 2^k, ties to the even mantissa (IEEE 754 round-half-even)
nearest_double(ds, decpt) ==
  LET rounded(m, k) ==
        IF m = Two53 THEN [m |-> Two52, k |-> k + 1] ELSE [m |-> m, k |-> k]
      settled(s) == rounded(dec_round(s.w), s.k)
      from(k0) == settled(dec_settle(dec_scale2(Dec(ds, decpt), 0 - k0), k0))
  IN  from(exp_estimate(decpt))

RECURSIVE shortest_digits(_, _, _, _, _)
\* the shortest decimal that float() takes back to the double x, and the
\* nearest to x of that length: x cut after p digits, or the p-digit decimal
\* above, the first that is within lo below x or within hi above x
\* (float_repr_style "short", _Py_dg_dtoa mode 0)
shortest_digits(x, lo, hi, closed, p) ==
  IF p >= Len(x.ds) THEN x
  ELSE
    LET head == SubSeq(x.ds, 1, p)
        tail == SubSeq(x.ds, p + 1, Len(x.ds))
        down == Dec(tail, x.pt - p)
        up == Dec([i \in 1..Len(tail) |->
                     IF i = Len(tail) THEN 10 - tail[i] ELSE 9 - tail[i]], x.pt - p)
        floor_ok == dec_within(down, lo, closed)
        ceil_ok == dec_within(up, hi, closed)
        nearer_up == \/ tail[1] > 5
                     \/ tail[1] = 5 /\ (Len(tail) > 1 \/ head[p] % 2 = 1)
    IN  IF floor_ok /\ (~ceil_ok \/ ~nearer_up) THEN Dec(dec_strip(head), x.pt)
        ELSE IF ceil_ok
          THEN IF \A i \in 1..p : head[i] = 9 THEN Dec(<<1>>, x.pt + 1)
               ELSE Dec(dec_strip(dec_incr(head)), x.pt)
        ELSE shortest_digits(x, lo, hi, closed, p + 1)

\* the digits repr() writes for the double m * 2^k, m > 0: half the gap to
\* the next double lies above it and, below it, half the gap to the double
\* before, which is the smaller gap under a power of two; the bounds
\* themselves round to this double when m is even
double_digits(m, k) ==
  LET half == dec_scale2(Dec(<<5>>, 0), k)
      below(h) == IF m = Two52 /\ k > MinExp THEN dec_half(h) ELSE h
      search(x, h) == shortest_digits(x, below(h), h, m[Len(m)] % 2 = 0, 1)
  IN  search(dec_scale2(Dec(dec_strip(m), Len(m)), k), half)

\* repr(x) for the float x = 0.ds * 10^decpt, ds without leading or
\* trailing zeros and not empty: float_repr_style "short" writes the digits
\* with the point in place when -4 < decpt <= 16 and in exponent notation
\* otherwise
float_text(ds, decpt) ==
  IF decpt > 16 \/ decpt <= -4
    THEN LET e == decpt - 1
             mag == IF e < 0 THEN 0 - e ELSE e
         IN  <<ds[1]>>
             \o (IF Len(ds) > 1 THEN <<".">> \o Tail(ds) ELSE <<>>)
             \o <<"e", IF e < 0 THEN "-" ELSE "+">>
             \o (IF mag < 10 THEN <<"0">> ELSE <<>>) \o int_digits(mag)
  ELSE IF decpt <= 0 THEN <<"0", ".">> \o zeros(0 - decpt) \o ds
  ELSE IF decpt >= Len(ds) THEN ds \o zeros(decpt - Len(ds)) \o <<".", "0">>
  ELSE SubSeq(ds, 1, decpt) \o <<".">> \o SubSeq(ds, decpt + 1, Len(ds))

\* repr(float(v)) for the decimal v = 0.ds * 10^decpt > 0.  A decimal of
\* 1e310 and more is beyond every double and one below 1e-330 is nearest to
\* zero
float_of_decimal(ds, decpt) ==
  IF decpt > 310 THEN F_inf
  ELSE IF decpt < -330 THEN F_zero
  ELSE
    LET shown(d) == float_text(digit_chars(d.ds), d.pt)
        double(r) ==
          IF Len(r.m) = 0 THEN F_zero
          ELSE IF r.k > MaxExp THEN F_inf
          ELSE shown(double_digits(r.m, r.k))
    IN  double(nearest_double(digit_numbers(ds), decpt))

\* repr(float(text)) for the text of a JSON number with a fraction or an
\* exponent: integer digits int, fraction digits frac, exponent ex
float_repr(neg, int, frac, ex) ==
  LET signed(text) == IF neg THEN <<"-">> \o text ELSE text
      value(ds, decpt) ==
        signed(IF Len(ds) = 0 THEN F_zero ELSE float_of_decimal(ds, decpt))
      stripped(all, lead) ==
        value(strip_trailing_zeros(lead), Len(int) + ex - (Len(all) - Len(lead)))
      joined(all) == stripped(all, strip_leading_zeros(all))
  IN  joined(int \o frac)

\* int() of the digits of an exponent; beyond six digits the number is out
\* of every float's range whatever its size
exp_value(ds) ==
  LET sized(sig) == IF Len(sig) > 6 THEN 1000000 ELSE digits_value(sig)
  IN  sized(strip_leading_zeros(ds))

\* NUMBER_RE.match(s, i) and the conversion of its groups: a fraction or an
\* exponent makes a float, an integer part alone an int
json_number(s, i) ==
  LET neg == s[i] = "-"
      j == IF neg THEN i + 1 ELSE i
  IN  IF j > Len(s) \/ ~IsDigit(s[j]) THEN JFail
      ELSE
        LET ie == IF s[j] = "0" THEN j + 1 ELSE digits_end(s, j)
            fe == IF ie + 1 <= Len(s) /\ s[ie] = "." /\ IsDigit(s[ie + 1])
                  THEN digits_end(s, ie + 1) ELSE ie
            signed == fe + 1 <= Len(s) /\ s[fe] \in {"e", "E"} /\ s[fe + 1] \in {"+", "-"}
            xs == IF signed THEN fe + 2 ELSE fe + 1
            ee == IF fe <= Len(s) /\ s[fe] \in {"e", "E"} /\ xs <= Len(s) /\ IsDigit(s[xs])
                  THEN digits_end(s, xs) ELSE fe
            int == SubSeq(s, j, ie - 1)
            frac == IF fe > ie THEN SubSeq(s, ie + 1, fe - 1) ELSE <<>>
            mag == IF ee > fe THEN exp_value(SubSeq(s, xs, ee - 1)) ELSE 0
            ex == IF ee > fe /\ signed /\ s[fe + 1] = "-" THEN 0 - mag ELSE mag
        IN  IF ee = ie
            THEN JOk(PyInt(IF neg THEN 0 - digits_value(int) ELSE digits_value(int)), ie)
            ELSE JOk(PyFloat(float_repr(neg, int, frac, ex)), ee)

\* the characters below U+0020, which a JSON string must escape
JsonControls == {CharOf(code) : code \in 0..31}

\* json.decoder.BACKSLASH: the character a one-letter escape stands for
unescape(c) ==
  CASE c = "b" -> Backspace
    [] c = "f" -> "\f"
    [] c = "n" -> "\n"
    [] c = "r" -> "\r"
    [] c = "t" -> "\t"
    [] OTHER -> c

\* int(s[i..i+3], 16)
hex4(s, i) ==
  4096 * HexVal(s[i]) + 256 * HexVal(s[i + 1]) + 16 * HexVal(s[i + 2]) + HexVal(s[i + 3])

\* s[i..i+3] are four hexadecimal digits
is_hex4(s, i) == i + 3 <= Len(s) /\ \A n \in 0..3 : IsHex(s[i + n])

\* Py_UNICODE_IS_HIGH_SURROGATE, Py_UNICODE_IS_LOW_SURROGATE
IsHighSurrogate(code) == code >= 55296 /\ code <= 56319

IsLowSurrogate(code) == code >= 56320 /\ code <= 57343

\* Py_UNICODE_JOIN_SURROGATES
join_surrogates(hi, lo) == 65536 + 1024 * (hi - 55296) + (lo - 56320)

\* s[j..] is a "\uXXXX" escape of a low surrogate
low_escape_at(s, j) ==
  /\ j + 1 <= Len(s) /\ s[j] = "\\" /\ s[j + 1] = "u"
  /\ is_hex4(s, j + 2)
  /\ IsLowSurrogate(hex4(s, j + 2))

RECURSIVE scan_chars(_, _, _)
\* scanstring from s[j] on, acc being the characters decoded so far: the
\* string ends at the first unescaped quote; a backslash escape is decoded;
\* a raw control character is an error (strict).  The escape of a high
\* surrogate and the escape of a low surrogate after it make one character;
\* a surrogate without its partner stays as it is
scan_chars(s, j, acc) ==
  IF j > Len(s) THEN JFail
  ELSE IF s[j] = DQ THEN JOk(PyStr(acc), j + 1)
  ELSE IF s[j] \in JsonControls THEN JFail
  ELSE IF s[j] # "\\" THEN scan_chars(s, j + 1, Append(acc, s[j]))
  ELSE IF j + 1 > Len(s) THEN JFail
  ELSE IF s[j + 1] \in {DQ, "\\", "/", "b", "f", "n", "r", "t"}
    THEN scan_chars(s, j + 2, Append(acc, unescape(s[j + 1])))
  ELSE IF s[j + 1] = "u" /\ is_hex4(s, j + 2)
    THEN IF IsHighSurrogate(hex4(s, j + 2)) /\ low_escape_at(s, j + 6)
         THEN scan_chars(s, j + 12,
                Append(acc, CharOf(join_surrogates(hex4(s, j + 2), hex4(s, j + 8)))))
         ELSE scan_chars(s, j + 6, Append(acc, CharOf(hex4(s, j + 2))))
  ELSE JFail

\* scanstring(s, i): s[i] is the opening quote
json_string(s, i) == scan_chars(s, i + 1, <<>>)

RECURSIVE json_value(_, _), json_elements(_, _, _), json_members(_, _, _)
\* scan_once(s, i)
json_value(s, i) ==
  IF i > Len(s) THEN JFail
  ELSE IF s[i] = DQ THEN json_string(s, i)
  ELSE IF s[i] = "{"
    THEN LET j == skip_ws(s, i + 1)
         IN  IF j > Len(s) THEN JFail
             ELSE IF s[j] = "}" THEN JOk(PyDict(EmptyDict), j + 1)
             ELSE json_members(s, j, EmptyDict)
  ELSE IF s[i] = "["
    THEN LET j == skip_ws(s, i + 1)
         IN  IF j <= Len(s) /\ s[j] = "]" THEN JOk(PyList(<<>>), j + 1)
             ELSE json_elements(s, j, <<>>)
  ELSE IF word_at(s, i, <<"n","u","l","l">>) THEN JOk(PyNone, i + 4)
  ELSE IF word_at(s, i, <<"t","r","u","e">>) THEN JOk(PyBool(TRUE), i + 4)
  ELSE IF word_at(s, i, <<"f","a","l","s","e">>) THEN JOk(PyBool(FALSE), i + 5)
  ELSE
    LET number_or(r) ==
          IF r.ok THEN r
          ELSE IF word_at(s, i, <<"N","a","N">>) THEN JOk(DecoderNaN, i + 3)
          ELSE IF word_at(s, i, <<"I","n","f","i","n","i","t","y">>)
            THEN JOk(PyFloat(F_inf), i + 8)
          ELSE IF word_at(s, i, <<"-","I","n","f","i","n","i","t","y">>)
            THEN JOk(PyFloat(F_neginf), i + 9)
          ELSE JFail
    IN  number_or(json_number(s, i))

\* JSONArray's loop: the next element starts at s[i]
json_elements(s, i, acc) ==
  LET after(values, j) ==
        IF j > Len(s) THEN JFail
        ELSE IF s[j] = "]" THEN JOk(PyList(values), j + 1)
        ELSE IF s[j] = "," THEN json_elements(s, skip_ws(s, j + 1), values)
        ELSE JFail
      element(r) ==
        IF ~r.ok THEN JFail ELSE after(Append(acc, r.v), skip_ws(s, r.i))
  IN  element(json_value(s, i))

\* JSONObject's loop: the next key starts at s[i]; dict(pairs) keeps a
\* repeated key at its first place with its last value
json_members(s, i, acc) ==
  IF i > Len(s) \/ s[i] # DQ THEN JFail
  ELSE
    LET after(pairs, j) ==
          IF j > Len(s) THEN JFail
          ELSE IF s[j] = "}" THEN JOk(PyDict(pairs), j + 1)
          ELSE IF s[j] = "," THEN json_members(s, skip_ws(s, j + 1), pairs)
          ELSE JFail
        member(key, r) ==
          IF ~r.ok THEN JFail ELSE after(DictPut(acc, key, r.v), skip_ws(s, r.i))
        colon(key, c) ==
          IF c > Len(s) \/ s[c] # ":" THEN JFail
          ELSE member(key, json_value(s, skip_ws(s, c + 1)))
        name(k) ==
          IF ~k.ok THEN JFail ELSE colon(k.v.s, skip_ws(s, k.i))
    IN  name(json_string(s, i))

\* JSONDecoder.decode: one value with whitespace around it, and nothing else
json_loads(s) ==
  LET whole(r) ==
        IF r.ok /\ skip_ws(s, r.i) = Len(s) + 1 THEN JOk(r.v, Len(s) + 1) ELSE JFail
  IN  whole(json_value(s, skip_ws(s, 1)))

\* "\\u{0:04x}".format(code)
u_escape(code) ==
  <<"\\", "u", HexLower[(code \div 4096) + 1], HexLower[((code \div 256) % 16) + 1],
    HexLower[((code \div 16) % 16) + 1], HexLower[(code % 16) + 1]>>

\* the \uXXXX form of ensure_ascii: a character beyond U+FFFF is written
\* as its two surrogates
u_escapes(code) ==
  IF code < 65536 THEN u_escape(code)
  ELSE u_escape(55296 + (((code - 65536) \div 1024) % 1024))
       \o u_escape(56320 + ((code - 65536) % 1024))

\* json.encoder.ESCAPE_DCT and the \uXXXX form of ensure_ascii, on one
\* character: the quote, the backslash and every character outside
\* U+0020..U+007E are escaped
escape_char(c) ==
  IF c = DQ THEN <<"\\", DQ>>
  ELSE IF c = "\\" THEN <<"\\", "\\">>
  ELSE IF c = "\n" THEN <<"\\", "n">>
  ELSE IF c = "\r" THEN <<"\\", "r">>
  ELSE IF c = "\t" THEN <<"\\", "t">>
  ELSE IF c = "\f" THEN <<"\\", "f">>
  ELSE IF c = Backspace THEN <<"\\", "b">>
  ELSE IF Len(c) = 1 THEN <<c>>
  ELSE
    LET by_code(code) ==
          IF code >= 32 /\ code <= 126 THEN <<c>> ELSE u_escapes(code)
    IN  by_code(CharCode(c))

RECURSIVE escape_chars(_)
escape_chars(s) ==
  IF Len(s) = 0 THEN <<>> ELSE escape_char(s[1]) \o escape_chars(Tail(s))

\* float.__repr__ as the encoder writes it
dumps_float(f) ==
  IF f = F_nan THEN <<"N","a","N">>
  ELSE IF f = F_inf THEN <<"I","n","f","i","n","i","t","y">>
  ELSE IF f = F_neginf THEN <<"-","I","n","f","i","n","i","t","y">>
  ELSE f

RECURSIVE json_dumps(_), dumps_items(_), dumps_members(_)
\* json.dumps(v, separators=(",", ":"), ensure_ascii=True)
json_dumps(v) ==
  CASE v.t = "none" -> <<"n","u","l","l">>
    [] v.t = "bool" -> IF v.b THEN <<"t","r","u","e">> ELSE <<"f","a","l","s","e">>
    [] v.t = "int" -> IF v.n < 0 THEN <<"-">> \o int_digits(0 - v.n) ELSE int_digits(v.n)
    [] v.t = "float" -> dumps_float(v.f)
    [] v.t = "str" -> <<DQ>> \o escape_chars(v.s) \o <<DQ>>
    [] v.t = "list" -> <<"[">> \o dumps_items(v.l) \o <<"]">>
    [] v.t = "dict" -> <<"{">> \o dumps_members(v.d) \o <<"}">>

dumps_items(l) ==
  IF Len(l) = 0 THEN <<>>
  ELSE IF Len(l) = 1 THEN json_dumps(l[1])
  ELSE json_dumps(l[1]) \o <<",">> \o dumps_items(Tail(l))

\* the items of a dict, in insertion order
dumps_members(d) ==
  IF Len(d) = 0 THEN <<>>
  ELSE
    LET m == <<DQ>> \o escape_chars(d[1][1]) \o <<DQ, ":">> \o json_dumps(d[1][2])
    IN  IF Len(d) = 1 THEN m
        ELSE m \o <<",">> \o dumps_members(Tail(d))

\* adapter.py lines 101-110: None for a text json.loads rejects with
\* JSONDecodeError.  The other errors of json.loads are not caught (the
\* RecursionError of a nesting beyond the interpreter's stack, the ValueError
\* of an int of more than 4300 digits); such a text has no value here
deserialize_data(data) ==
  LET loaded(r) == IF r.ok THEN r.v ELSE PyNone IN loaded(json_loads(data))

\* adapter.py lines 112-118
serialize_data(data) == json_dumps(data)

(***************************************************************************)
(* urllib.parse: quote_plus, unquote_plus, urlencode, parse_qs             *)
(***************************************************************************)

\* the characters quote_plus keeps: letters, digits and "_.-~"
IsUnreserved(c) ==
  IsUpper(c) \/ IsLower(c) \/ IsDigit(c) \/ c \in {"_", ".", "-", "~"}

\* c.encode("utf-8") as the numbers of its bytes; a surrogate has no
\* encoding (UnicodeEncodeError)
utf8_encode(code) ==
  CASE code < 128 -> <<code>>
    [] code >= 128 /\ code < 2048 ->
         <<192 + (code \div 64), 128 + (code % 64)>>
    [] code >= 2048 /\ code < 65536 /\ ~IsHighSurrogate(code) /\ ~IsLowSurrogate(code) ->
         <<224 + (code \div 4096), 128 + ((code \div 64) % 64), 128 + (code % 64)>>
    [] code >= 65536 ->
         <<240 + (code \div 262144), 128 + ((code \div 4096) % 64),
           128 + ((code \div 64) % 64), 128 + (code % 64)>>

RECURSIVE percent_bytes(_)
\* "%XX" for every byte
percent_bytes(bs) ==
  IF Len(bs) = 0 THEN <<>> ELSE <<"%">> \o Hex2(bs[1]) \o percent_bytes(Tail(bs))

\* quote_plus on one character
quote_char(c) ==
  IF c = " " THEN <<"+">>
  ELSE IF IsUnreserved(c) THEN <<c>>
  ELSE percent_bytes(utf8_encode(CharCode(c)))

RECURSIVE quote_plus(_)
quote_plus(s) ==
  IF Len(s) = 0 THEN <<>> ELSE quote_char(s[1]) \o quote_plus(Tail(s))

RECURSIVE unquote_to_bytes(_)
\* unquote_to_bytes on ASCII characters: "%XX" with two hexadecimal digits,
\* in either case, is the byte XX, and every other character its own byte
unquote_to_bytes(s) ==
  IF Len(s) = 0 THEN <<>>
  ELSE IF s[1] = "%" /\ Len(s) >= 3 /\ IsHex(s[2]) /\ IsHex(s[3])
    THEN <<16 * HexVal(s[2]) + HexVal(s[3])>> \o unquote_to_bytes(SubSeq(s, 4, Len(s)))
  ELSE <<CharCode(s[1])>> \o unquote_to_bytes(Tail(s))

\* the number of continuation bytes the lead byte b announces, -1 when b
\* can start no character
utf8_need(b) ==
  IF b < 128 THEN 0
  ELSE IF b >= 194 /\ b <= 223 THEN 1
  ELSE IF b >= 224 /\ b <= 239 THEN 2
  ELSE IF b >= 240 /\ b <= 244 THEN 3
  ELSE -1

\* c may be the n-th byte after the lead byte b: the second byte of a
\* character is bounded so that no character is overlong, a surrogate or
\* beyond U+10FFFF
utf8_cont_ok(b, n, c) ==
  /\ c >= (IF n = 1 /\ b = 224 THEN 160 ELSE IF n = 1 /\ b = 240 THEN 144 ELSE 128)
  /\ c <= (IF n = 1 /\ b = 237 THEN 159 ELSE IF n = 1 /\ b = 244 THEN 143 ELSE 191)

RECURSIVE utf8_good(_, _, _)
\* how many of the bytes after bs[1] continue its character, from the n-th on
utf8_good(bs, n, need) ==
  IF n > need \/ n + 1 > Len(bs) \/ ~utf8_cont_ok(bs[1], n, bs[n + 1]) THEN n - 1
  ELSE utf8_good(bs, n + 1, need)

\* the code point that a lead byte and its continuation bytes write
utf8_code(bs, need) ==
  CASE need = 0 -> bs[1]
    [] need = 1 -> 64 * (bs[1] - 192) + (bs[2] - 128)
    [] need = 2 -> 4096 * (bs[1] - 224) + 64 * (bs[2] - 128) + (bs[3] - 128)
    [] need = 3 -> 262144 * (bs[1] - 240) + 4096 * (bs[2] - 128)
                   + 64 * (bs[3] - 128) + (bs[4] - 128)

RECURSIVE utf8_decode(_)
\* bs.decode("utf-8", "replace"): a byte that can start no character, and
\* the longest run of bytes that starts a character without completing it,
\* become one U+FFFD each
utf8_decode(bs) ==
  IF Len(bs) = 0 THEN <<>>
  ELSE
    LET step(need, good) ==
          IF need = -1 THEN <<ReplacementChar>> \o utf8_decode(Tail(bs))
          ELSE IF good = need
            THEN <<CharOf(utf8_code(bs, need))>>
                 \o utf8_decode(SubSeq(bs, need + 2, Len(bs)))
          ELSE <<ReplacementChar>> \o utf8_decode(SubSeq(bs, good + 2, Len(bs)))
    IN  step(utf8_need(bs[1]), utf8_good(bs, 1, utf8_need(bs[1])))

RECURSIVE ascii_end(_, _)
\* index after the run of ASCII characters that starts at s[i]
ascii_end(s, i) ==
  IF i <= Len(s) /\ IsAscii(s[i]) THEN ascii_end(s, i + 1) ELSE i

RECURSIVE unquote_bits(_)
\* unquote's loop over _asciire.split(s): every run of ASCII characters is
\* unquoted to bytes and decoded as a whole, the characters between the runs
\* stay
unquote_bits(s) ==
  IF Len(s) = 0 THEN <<>>
  ELSE IF ~IsAscii(s[1]) THEN <<s[1]>> \o unquote_bits(Tail(s))
  ELSE
    LET run(n) ==
          utf8_decode(unquote_to_bytes(SubSeq(s, 1, n - 1)))
          \o unquote_bits(SubSeq(s, n, Len(s)))
    IN  run(ascii_end(s, 1))

\* unquote(s, encoding="utf-8", errors="replace")
unquote(s) ==
  IF \A i \in 1..Len(s) : s[i] # "%" THEN s ELSE unquote_bits(s)

\* unquote(s.replace("+", " "))
unquote_plus(s) == unquote(str_replace(s, "+", " "))

RECURSIVE urlencode(_)
\* urlencode(params) for a dict of str -> str, given as its items in order
urlencode(items) ==
  IF Len(items) = 0 THEN <<>>
  ELSE
    LET kv == quote_plus(items[1][1]) \o <<"=">> \o quote_plus(items[1][2])
    IN  IF Len(items) = 1 THEN kv ELSE kv \o <<"&">> \o urlencode(Tail(items))

RECURSIVE flatten_doseq(_)
\* the (key, element) pairs urlencode(items, doseq=True) writes for a dict of
\* str -> list of str
flatten_doseq(items) ==
  IF Len(items) = 0 THEN <<>>
  ELSE [i \in 1..Len(items[1][2]) |-> <<items[1][1], items[1][2][i]>>]
       \o flatten_doseq(Tail(items))

urlencode_doseq(items) == urlencode(flatten_doseq(items))

RECURSIVE parse_qsl(_)
\* parse_qsl over the "&"-separated fields: a field without "=" or with a
\* blank value is skipped (keep_blank_values=False, strict_parsing=False)
parse_qsl(fields) ==
  IF Len(fields) = 0 THEN <<>>
  ELSE
    LET nv == str_split1(fields[1], "=")
        rest == parse_qsl(Tail(fields))
    IN  IF Len(fields[1]) = 0 \/ Len(nv) # 2 THEN rest
        ELSE IF Len(nv[2]) = 0 THEN rest
        ELSE <<<<unquote_plus(nv[1]), unquote_plus(nv[2])>>>> \o rest

RECURSIVE group_pairs(_, _)
\* parse_qs's dict: each name, in order of first appearance, with the list of
\* its values
group_pairs(pairs, acc) ==
  IF Len(pairs) = 0 THEN acc
  ELSE
    LET k == pairs[1][1]
        v == pairs[1][2]
    IN  IF \E i \in 1..Len(acc) : acc[i][1] = k
        THEN group_pairs(Tail(pairs),
               [i \in 1..Len(acc) |->
                  IF acc[i][1] = k THEN <<k, Append(acc[i][2], v)>> ELSE acc[i]])
        ELSE group_pairs(Tail(pairs), Append(acc, <<k, <<v>>>>))

parse_qs(qs) ==
  IF Len(qs) = 0 THEN <<>> ELSE group_pairs(parse_qsl(str_split(qs, "&")), <<>>)

\* d[k] = v on a sequence-of-pairs dict: replace in place, or append
ItemsPut(items, k, v) ==
  IF \E i \in 1..Len(items) : items[i][1] = k
  THEN [i \in 1..Len(items) |-> IF items[i][1] = k THEN <<k, v>> ELSE items[i]]
  ELSE Append(items, <<k, v>>)

ItemsHas(items, k) == \E i \in 1..Len(items) : items[i][1] = k

ItemsGet(items, k) == items[CHOOSE i \in 1..Len(items) : items[i][1] = k][2]

\* the mapping a sequence-of-pairs dict denotes
ItemsMap(items) ==
  [k \in {items[i][1] : i \in 1..Len(items)} |-> ItemsGet(items, k)]

(***************************************************************************)
(* Option names                                                            *)
(***************************************************************************)

N_version == <<"v","e","r","s","i","o","n">>

N_target == <<"t","a","r","g","e","t">>

N_mode == <<"m","o","d","e">>

N_context == <<"c","o","n","t","e","x","t">>

N_fail_target == <<"f","a","i","l","_","t","a","r","g","e","t">>

N_fail_mode == <<"f","a","i","l","_","m","o","d","e">>

N_fail_context == <<"f","a","i","l","_","c","o","n","t","e","x","t">>

N_validate == <<"v","a","l","i","d","a","t","e">>

N_server_target == <<"s","e","r","v","e","r","_","t","a","r","g","e","t">>

N_initial_context == <<"i","n","i","t","i","a","l","_","c","o","n","t","e","x","t">>

N_title == <<"t","i","t","l","e">>

N_expire_cache == <<"e","x","p","i","r","e","_","c","a","c","h","e">>

N_accept_layer == <<"a","c","c","e","p","t","_","l","a","y","e","r">>

N_dismiss_layer == <<"d","i","s","m","i","s","s","_","l","a","y","e","r">>

N_events == <<"e","v","e","n","t","s">>

N_context_diff == <<"c","o","n","t","e","x","t","_","d","i","f","f">>

N_location == <<"l","o","c","a","t","i","o","n">>

N_method == <<"m","e","t","h","o","d">>

N_type == <<"t","y","p","e">>

N_layer == <<"l","a","y","e","r">>

HeaderPrefix == <<"X","-","U","p","-">>

ParamPrefix == <<"_","u","p","_">>

RECURSIVE non_reserved(_)
\* {k: v for k, v in items if not k.startswith("_up_")}
non_reserved(items) ==
  IF Len(items) = 0 THEN <<>>
  ELSE (IF str_startswith(items[1][1], ParamPrefix) THEN <<>> ELSE <<items[1]>>)
       \o non_reserved(Tail(items))

\* header[5:].lower().replace("-", "_")
header_to_opt(header) == str_replace(str_lower(str_from(header, 5)), "-", "_")

\* "X-Up-" + "-".join(x.capitalize() for x in opt.split("_"))
opt_to_header(opt) ==
  LET parts == str_split(opt, "_")
  IN  HeaderPrefix
      \o str_join(<<"-">>, [i \in 1..Len(parts) |-> str_capitalize(parts[i])])

\* param[4:]
param_to_opt(param) == str_from(param, 4)

\* "_up_" + opt
opt_to_param(opt) == ParamPrefix \o opt

(***************************************************************************)
(* options.py: class Options                                               *)
(*                                                                         *)
(* An operation that can raise returns a record whose field exc is ""      *)
(* when it returns normally and the exception's class name when it raises. *)
(***************************************************************************)

\* the keyword arguments the attrs-generated __init__ accepts
\* (server_target and initial_context are init=False)
InitNames ==
  { N_version, N_target, N_mode, N_context, N_fail_target, N_fail_mode,
    N_fail_context, N_validate, N_title, N_expire_cache, N_accept_layer,
    N_dismiss_layer, N_events }

\* the options Options.parse decodes as structured data
StructuredNames ==
  { N_events, N_context, N_context_diff, N_fail_context, N_dismiss_layer,
    N_accept_layer, N_title }

KwArg(kw, name, default) == IF name \in DOMAIN kw THEN kw[name] ELSE default

\* the record every field of which holds its declared default
DefaultOptions ==
  [ version |-> PyStr(<<>>), target |-> PyStr(<<>>), mode |-> PyStr(<<>>),
    context |-> PyDict(EmptyDict), fail_target |-> PyStr(<<>>),
    fail_mode |-> PyStr(<<>>), fail_context |-> PyDict(EmptyDict),
    validate |-> PyStr(<<>>), server_target |-> PyStr(<<>>),
    initial_context |-> PyDict(EmptyDict), title |-> PyStr(<<>>),
    expire_cache |-> PyStr(<<>>), accept_layer |-> SENTINEL,
    dismiss_layer |-> SENTINEL, events |-> PyList(<<>>) ]

\* copy.deepcopy(v): values are immutable here, the copy shares nothing
deepcopy(v) == v

\* Options(**kw): __init__ raises TypeError on a keyword it does not declare;
\* __attrs_post_init__ snapshots the context
Options_init(kw) ==
  IF ~(DOMAIN kw \subseteq InitNames)
  THEN [exc |-> "TypeError", opts |-> DefaultOptions]
  ELSE
    LET ctx == KwArg(kw, N_context, PyDict(EmptyDict))
    IN  [ exc |-> "",
          opts |->
            [ version |-> KwArg(kw, N_version, PyStr(<<>>)),
              target |-> KwArg(kw, N_target, PyStr(<<>>)),
              mode |-> KwArg(kw, N_mode, PyStr(<<>>)),
              context |-> ctx,
              fail_target |-> KwArg(kw, N_fail_target, PyStr(<<>>)),
              fail_mode |-> KwArg(kw, N_fail_mode, PyStr(<<>>)),
              fail_context |-> KwArg(kw, N_fail_context, PyDict(EmptyDict)),
              validate |-> KwArg(kw, N_validate, PyStr(<<>>)),
              server_target |-> PyStr(<<>>),
              initial_context |-> deepcopy(ctx),
              title |-> KwArg(kw, N_title, PyStr(<<>>)),
              expire_cache |-> KwArg(kw, N_expire_cache, PyStr(<<>>)),
              accept_layer |-> KwArg(kw, N_accept_layer, SENTINEL),
              dismiss_layer |-> KwArg(kw, N_dismiss_layer, SENTINEL),
              events |-> KwArg(kw, N_events, PyList(<<>>)) ] ]

\* v is hashable
Hashable(v) == v.t \notin {"list", "dict"}

RECURSIVE set_of(_, _)
\* set(l) for a list of hashable values, as the sequence of its elements:
\* of equal values the first one met is the element.  acc holds the
\* elements found so far
set_of(l, acc) ==
  IF Len(l) = 0 THEN acc
  ELSE IF \E i \in 1..Len(acc) : Canon(acc[i]) = Canon(l[1])
    THEN set_of(Tail(l), acc)
  ELSE set_of(Tail(l), Append(acc, l[1]))

\* the elements of set(old) | set(new) in context_diff, old and new being
\* the two contexts: the keys of dicts, the characters of a str, the
\* elements of a list
set_elems(old, new) ==
  IF IsDict(old) /\ IsDict(new) THEN DictKeys(old.d) \cup DictKeys(new.d)
  ELSE IF new.t = "str" THEN {new.s[i] : i \in 1..Len(new.s)}
  ELSE IF new.t = "list" /\ \A i \in 1..Len(new.l) : Hashable(new.l[i])
    THEN LET els == set_of(new.l, <<>>) IN {els[i] : i \in 1..Len(els)}
  ELSE {}

\* every sequence that lists the elements of S once each
Orders(S) ==
  {q \in [1..Cardinality(S) -> S] : \A i, j \in 1..Cardinality(S) : q[i] = q[j] => i = j}

\* the orders in which context_diff may meet the elements of its sets: the
\* language does not fix the iteration order of a set, and for str elements
\* it changes with the hash seed of the process
set_orders(opts) == Orders(set_elems(opts.initial_context, opts.context))

\* dict_diff as if the loop over old_keys - new_keys (lines 50-51) were missing
dict_diff_no_deleted(old, new, ord) ==
  LET added == SelectSeq(ord, LAMBDA k : DictHas(new, k) /\ ~DictHas(old, k))
      changed == SelectSeq(ord, LAMBDA k : DictHas(new, k) /\ DictHas(old, k)
                                            /\ ~PyEq(DictGet(old, k), DictGet(new, k)))
  IN  [i \in 1..Len(added) |-> <<added[i], DictGet(new, added[i])>>]
      \o [i \in 1..Len(changed) |-> <<changed[i], DictGet(new, changed[i])>>]

\* the diff of two dicts, lines 47-57: the keys only old has, then the keys
\* only new has, then the keys of both whose values differ, each group in
\* the order ord gives its keys
dict_diff(old, new, ord) ==
  LET deleted == SelectSeq(ord, LAMBDA k : DictHas(old, k) /\ ~DictHas(new, k))
      added == SelectSeq(ord, LAMBDA k : DictHas(new, k) /\ ~DictHas(old, k))
      changed == SelectSeq(ord, LAMBDA k : DictHas(new, k) /\ DictHas(old, k)
                                            /\ ~PyEq(DictGet(old, k), DictGet(new, k)))
  IN  [i \in 1..Len(deleted) |-> <<deleted[i], PyNone>>]
      \o [i \in 1..Len(added) |-> <<added[i], DictGet(new, added[i])>>]
      \o [i \in 1..Len(changed) |-> <<changed[i], DictGet(new, changed[i])>>]

\* what old[key] raises for a list old of n elements
index_exc(key, n) ==
  IF key.t = "bool" THEN (IF n < (IF key.b THEN 2 ELSE 1) THEN "IndexError" ELSE "")
  ELSE IF key.t = "int"
    THEN (IF key.n >= n \/ key.n < 0 - n THEN "IndexError" ELSE "")
  ELSE "TypeError"

\* what set(v) followed by the loops of context_diff raises when old and
\* new are the same non-dict value v (a non-dict context is never mutated):
\* a number or a bool is not iterable; a dict or list element of a list is
\* unhashable; the characters of a str are no indices of it; the elements
\* of a list are used as its indices, in the order ord, and the first one
\* that is no index or is out of range raises
nondict_diff_exc(v, ord) ==
  CASE v.t = "str" -> IF Len(v.s) = 0 THEN "" ELSE "TypeError"
    [] v.t = "list" ->
         IF \E i \in 1..Len(v.l) : ~Hashable(v.l[i]) THEN "TypeError"
         ELSE IF \A i \in 1..Len(ord) : index_exc(ord[i], Len(v.l)) = "" THEN ""
         ELSE index_exc(ord[CHOOSE i \in 1..Len(ord) :
                              /\ index_exc(ord[i], Len(v.l)) # ""
                              /\ \A j \in 1..(i - 1) : index_exc(ord[j], Len(v.l)) = ""],
                        Len(v.l))
    [] OTHER -> "TypeError"

\* Options.context_diff, the sets being iterated in the order ord
context_diff(opts, ord) ==
  IF IsDict(opts.initial_context) /\ IsDict(opts.context)
  THEN [exc |-> "", v |-> dict_diff(opts.initial_context.d, opts.context.d, ord)]
  ELSE [exc |-> nondict_diff_exc(opts.context, ord), v |-> EmptyDict]

\* lines 72-78: the decoded value of one structured option
decode_option(opt, raw) ==
  LET substitute(decoded) ==
        IF IsNone(decoded)
        THEN IF opt \in {N_context, N_fail_context, N_context_diff}
               THEN PyDict(EmptyDict)
             ELSE IF opt = N_events THEN PyList(<<>>)
             ELSE decoded
        ELSE decoded
  IN  substitute(deserialize_data(raw))

\* lines 61-78: parsed_options
parsed_options(options) ==
  [opt \in DOMAIN options |->
     IF opt \in StructuredNames THEN decode_option(opt, options[opt])
     ELSE PyStr(options[opt])]

RECURSIVE apply_diff_no_delete(_, _)
\* apply_diff as if line 85 did not test for None: every key is assigned
apply_diff_no_delete(ctx, diff) ==
  IF Len(diff) = 0 THEN ctx
  ELSE apply_diff_no_delete(DictPut(ctx, diff[1][1], diff[1][2]), Tail(diff))

RECURSIVE apply_diff(_, _)
\* lines 84-88 on a dict context: the loop over context_diff.items()
apply_diff(ctx, diff) ==
  IF Len(diff) = 0 THEN ctx
  ELSE
    LET k == diff[1][1]
        v == diff[1][2]
    IN  apply_diff(IF IsNone(v) /\ DictHas(ctx, k) THEN DictDel(ctx, k)
                   ELSE DictPut(ctx, k, v),
                   Tail(diff))

\* lines 82-89: the record made, with the passed context diff applied;
\* a truthy diff that is no dict has no items(), a context that is no dict
\* takes no item assignment
parse_apply(made, diff) ==
  IF made.exc # "" THEN made
  ELSE IF ~Truthy(diff) THEN made
  ELSE IF ~IsDict(diff) THEN [exc |-> "AttributeError", opts |-> made.opts]
  ELSE IF ~IsDict(made.opts.context)
    THEN [exc |-> "TypeError", opts |-> made.opts]
  ELSE [ exc |-> "",
         opts |-> [made.opts EXCEPT
                     !.context = PyDict(apply_diff(made.opts.context.d, diff.d))] ]

\* lines 79-81: context_diff is popped, the rest are the keyword arguments
parse_construct(parsed) ==
  parse_apply(Options_init([opt \in (DOMAIN parsed) \ {N_context_diff} |-> parsed[opt]]),
              KwArg(parsed, N_context_diff, PyDict(EmptyDict)))

\* Options.parse(options, adapter); options maps option names to raw strings
Options_parse(options) == parse_construct(parsed_options(options))

\* lines 94-96: events and title are written when truthy
ser_truthy(opts) ==
  (IF Truthy(opts.events)
     THEN <<<<N_events, serialize_data(opts.events)>>>> ELSE <<>>)
  \o (IF Truthy(opts.title)
        THEN <<<<N_title, serialize_data(opts.title)>>>> ELSE <<>>)

\* ser_layers as if lines 98-99 tested the value's truth, like lines 94-95
ser_layers_truthy(opts) ==
  (IF opts.accept_layer # SENTINEL /\ Truthy(opts.accept_layer)
     THEN <<<<N_accept_layer, serialize_data(opts.accept_layer)>>>> ELSE <<>>)
  \o (IF opts.dismiss_layer # SENTINEL /\ Truthy(opts.dismiss_layer)
        THEN <<<<N_dismiss_layer, serialize_data(opts.dismiss_layer)>>>> ELSE <<>>)

\* lines 97-100: accept_layer and dismiss_layer are written unless SENTINEL
ser_layers(opts) ==
  (IF opts.accept_layer # SENTINEL
     THEN <<<<N_accept_layer, serialize_data(opts.accept_layer)>>>> ELSE <<>>)
  \o (IF opts.dismiss_layer # SENTINEL
        THEN <<<<N_dismiss_layer, serialize_data(opts.dismiss_layer)>>>> ELSE <<>>)

\* lines 102-107: expire_cache verbatim; the server's target when it differs
ser_plain(opts) ==
  (IF Truthy(opts.expire_cache)
     THEN <<<<N_expire_cache, opts.expire_cache.s>>>> ELSE <<>>)
  \o (IF Truthy(opts.server_target) /\ opts.server_target # opts.target
        THEN <<<<N_target, opts.server_target.s>>>> ELSE <<>>)

\* lines 110-112: the context diff, when not empty, under the key "context"
ser_context(diff) ==
  IF Len(diff) > 0
  THEN <<<<N_context, serialize_data(PyDict(diff))>>>> ELSE <<>>

\* Options.serialize(adapter): the items of serialized_options in insertion
\* order, context_diff meeting the elements of its sets in the order ord
Options_serialize(opts, ord) ==
  LET diff == context_diff(opts, ord)
  IN  IF diff.exc # "" THEN [exc |-> diff.exc, items |-> <<>>]
      ELSE [ exc |-> "",
             items |-> ser_truthy(opts) \o ser_layers(opts) \o ser_plain(opts)
                       \o ser_context(diff.v) ]

(***************************************************************************)
(* State of one request cycle                                              *)
(***************************************************************************)

VARIABLES
  adapter,    \* the adapter: the request it reads and, for SimpleAdapter, the
              \* fields it writes (cookie, response_headers, response_redirect_uri)
  response,   \* the response object handed to finalize_response (Django's
              \* HttpResponse: status_code, headers, cookies)
  cached,     \* whether the cached_property Unpoly.options has been computed
  options,    \* the Options record, meaningful when cached
  calls,      \* the adapter's writing methods called so far, in order
  lastOp,     \* the last operation: its name, arguments and exception ("" if none)
  hist,       \* whether Layer.accept / Layer.dismiss / the target setter
              \* returned normally so far, and the last value each was given
  nops,       \* number of handler operations so far
  finalized   \* whether finalize_response has been called

vars == <<adapter, response, cached, options, calls, lastOp, hist, nops, finalized>>

\* handler operations per request cycle
MaxOps == 2

N_GET == <<"G","E","T">>

N_POST == <<"P","O","S","T">>

N_current == <<"c","u","r","r","e","n","t">>

N_false == <<"f","a","l","s","e">>

N_star == <<"*">>

UP_METHOD_COOKIE == <<"_","u","p","_","m","e","t","h","o","d">>

H_Location == <<"L","o","c","a","t","i","o","n">>

(***************************************************************************)
(* adapter.py: SimpleAdapter;  contrib/django.py: DjangoAdapter            *)
(***************************************************************************)

\* the mapping without keys
NoMap == [k \in {} |-> <<>>]

\* m[k] = v on a mapping whose order plays no part (the headers and the
\* cookies of a Django response)
MapPut(m, k, v) == [x \in (DOMAIN m) \cup {k} |-> IF x = k THEN v ELSE m[x]]

\* adapter.redirect_uri(response)
adapter_redirect_uri(a, resp) ==
  IF a.kind = "simple" THEN a.redirect_uri
  ELSE IF 300 <= resp.status_code /\ resp.status_code < 400
    THEN IF H_Location \in DOMAIN resp.headers
         THEN PyStr(resp.headers[H_Location]) ELSE PyNone
  ELSE PyNone

CookieCall(needs_cookie) ==
  [fn |-> "set_cookie", flag |-> needs_cookie, headers |-> <<>>, uri |-> <<>>]

HeadersCall(headers) ==
  [fn |-> "set_headers", flag |-> FALSE, headers |-> headers, uri |-> <<>>]

RedirectCall(uri) ==
  [fn |-> "set_redirect_uri", flag |-> FALSE, headers |-> <<>>, uri |-> uri]

\* SimpleAdapter.set_cookie / set_headers / set_redirect_uri
simple_call(a, c) ==
  CASE c.fn = "set_cookie" ->
         [a EXCEPT !.cookie = IF c.flag THEN "True" ELSE "False"]
    [] c.fn = "set_headers" ->
         [a EXCEPT !.response_headers = [set |-> TRUE, v |-> c.headers]]
    [] c.fn = "set_redirect_uri" ->
         [a EXCEPT !.response_redirect_uri = PyStr(c.uri)]

\* DjangoAdapter.set_cookie / set_headers / set_redirect_uri
django_call(a, resp, c) ==
  CASE c.fn = "set_cookie" ->
         IF c.flag
         THEN [resp EXCEPT !.cookies =
                 MapPut(@, UP_METHOD_COOKIE, [value |-> a.method, deleted |-> FALSE])]
         ELSE IF UP_METHOD_COOKIE \in a.cookies
         THEN [resp EXCEPT !.cookies =
                 MapPut(@, UP_METHOD_COOKIE, [value |-> <<>>, deleted |-> TRUE])]
         ELSE resp
    [] c.fn = "set_headers" ->
         [resp EXCEPT !.headers =
            [k \in (DOMAIN @) \cup (DOMAIN c.headers) |->
               IF k \in DOMAIN c.headers THEN c.headers[k] ELSE @[k]]]
    [] c.fn = "set_redirect_uri" ->
         [resp EXCEPT !.headers = MapPut(@, H_Location, c.uri)]

RECURSIVE after_calls(_, _, _)
\* the adapter and the response after the calls cs, made in order
after_calls(a, resp, cs) ==
  IF Len(cs) = 0 THEN [a |-> a, resp |-> resp]
  ELSE IF a.kind = "simple"
    THEN after_calls(simple_call(a, cs[1]), resp, Tail(cs))
  ELSE after_calls(a, django_call(a, resp, cs[1]), Tail(cs))

(***************************************************************************)
(* up.py: class Unpoly, class Layer, class Cache                           *)
(***************************************************************************)

RECURSIVE header_options(_, _)
\* lines 121-123: the dict comprehension over the request headers, which are
\* met in insertion order: of two headers with the same option name the
\* later one gives the value
header_options(headers, acc) ==
  IF Len(headers) = 0 THEN acc
  ELSE IF str_startswith(headers[1][1], HeaderPrefix)
    THEN header_options(Tail(headers),
                        MapPut(acc, header_to_opt(headers[1][1]), headers[1][2]))
  ELSE header_options(Tail(headers), acc)

RECURSIVE param_options(_, _)
\* lines 124-126: options.update(...) with the "_up_" parameters
param_options(params, acc) ==
  IF Len(params) = 0 THEN acc
  ELSE IF str_startswith(params[1][1], ParamPrefix)
    THEN param_options(Tail(params),
                       MapPut(acc, param_to_opt(params[1][1]), params[1][2]))
  ELSE param_options(Tail(params), acc)

\* lines 118-126: the raw option map; a parameter overrides a header
raw_options(a) == param_options(a.params, header_options(a.headers, NoMap))

\* Unpoly.options, when computed
Unpoly_options(a) == Options_parse(raw_options(a))

\* self.options: the cached record, or the outcome of computing it now
OptGet == IF cached THEN [exc |-> "", opts |-> options] ELSE Unpoly_options(adapter)

\* Unpoly.__bool__
Unpoly_bool(opts) == Truthy(opts.version)

\* Unpoly.target (getter)
Unpoly_target(opts) ==
  IF Truthy(opts.server_target) THEN opts.server_target ELSE opts.target

\* fail_target as if it ignored the target the server set
Unpoly_fail_target_own(opts) == opts.fail_target

\* Unpoly.fail_target
Unpoly_fail_target(opts) ==
  IF Truthy(opts.server_target) THEN opts.server_target ELSE opts.fail_target

Ok(opts) == [exc |-> "", opts |-> opts]

Raise(exc, opts) == [exc |-> exc, opts |-> opts]

\* Unpoly.set_title
set_title(opts, value) == Ok([opts EXCEPT !.title = PyStr(value)])

\* Unpoly.emit: events.append is looked up, then dict(type=type, **options)
\* is built, "type" first, which raises on a second "type" keyword
Unpoly_emit(opts, type, o) ==
  IF ~IsList(opts.events) THEN Raise("AttributeError", opts)
  ELSE IF DictHas(o, N_type) THEN Raise("TypeError", opts)
  ELSE Ok([opts EXCEPT
             !.events = PyList(Append(@.l, PyDict(<<<<N_type, PyStr(type)>>>> \o o)))])

\* Layer.emit: options or {}, then dict(layer="current", **options), "layer"
\* first, which raises on a second "layer" keyword
Layer_emit(opts, type, o) ==
  LET given == IF Truthy(o) THEN o.d ELSE EmptyDict
  IN  IF DictHas(given, N_layer) THEN Raise("TypeError", opts)
      ELSE Unpoly_emit(opts, type, <<<<N_layer, PyStr(N_current)>>>> \o given)

\* Layer.accept
Layer_accept(opts, value) == Ok([opts EXCEPT !.accept_layer = value])

\* Layer.dismiss
Layer_dismiss(opts, value) == Ok([opts EXCEPT !.dismiss_layer = value])

\* Cache.expire
Cache_expire(opts, pattern) == Ok([opts EXCEPT !.expire_cache = PyStr(pattern)])

\* Cache.keep
Cache_keep(opts) == Cache_expire(opts, N_false)

\* Unpoly.target (setter)
set_target(opts, new_target) == Ok([opts EXCEPT !.server_target = PyStr(new_target)])

\* ctx[key] = value on the object a context accessor returns
ctx_setitem(ctx, key, value) ==
  IF IsDict(ctx) THEN [exc |-> "", v |-> PyDict(DictPut(ctx.d, key, value))]
  ELSE [exc |-> "TypeError", v |-> ctx]

\* del ctx[key] on the object a context accessor returns
ctx_delitem(ctx, key) ==
  IF ~IsDict(ctx) THEN [exc |-> "TypeError", v |-> ctx]
  ELSE IF ~DictHas(ctx.d, key) THEN [exc |-> "KeyError", v |-> ctx]
  ELSE [exc |-> "", v |-> PyDict(DictDel(ctx.d, key))]

\* up.context[key] = value  (also layer.context: the same object)
context_set(opts, key, value) ==
  LET r == ctx_setitem(opts.context, key, value)
  IN  [exc |-> r.exc, opts |-> [opts EXCEPT !.context = r.v]]

\* del up.context[key]
context_del(opts, key) ==
  LET r == ctx_delitem(opts.context, key)
  IN  [exc |-> r.exc, opts |-> [opts EXCEPT !.context = r.v]]

\* up.fail_context[key] = value  (also fail_layer.context)
fail_context_set(opts, key, value) ==
  LET r == ctx_setitem(opts.fail_context, key, value)
  IN  [exc |-> r.exc, opts |-> [opts EXCEPT !.fail_context = r.v]]

\* lines 226-232: the redirect URI with the serialized options appended
redirect_target(redirect_uri, items) ==
  LET renamed ==
        IF ItemsHas(items, N_context)
        THEN Append(SelectSeq(items, LAMBDA kv : kv[1] # N_context),
                    <<N_context_diff, ItemsGet(items, N_context)>>)
        ELSE items
      params == [i \in 1..Len(renamed) |-> <<opt_to_param(renamed[i][1]), renamed[i][2]>>]
      sep == IF str_contains(redirect_uri, <<"?">>) THEN <<"&">> ELSE <<"?">>
  IN  IF Len(params) > 0 THEN redirect_uri \o sep \o urlencode(params)
      ELSE redirect_uri

\* line 235: the test that decides whether the location is rewritten
location_has_reserved(loc) ==
  str_contains(loc, <<"?">>) /\ str_contains(loc, ParamPrefix)

\* lines 236-241: the location without its "_up_" parameters
clean_location(location) ==
  LET parts == str_split1(location, "?")
      kept == non_reserved(parse_qs(parts[2]))
  IN  IF Len(kept) > 0 THEN parts[1] \o <<"?">> \o urlencode_doseq(kept)
      ELSE parts[1]

\* lines 243-244: the method is added and every key becomes a header name
headers_of(a, located) ==
  ItemsMap([i \in 1..(Len(located) + 1) |->
              IF i <= Len(located)
              THEN <<opt_to_header(located[i][1]), located[i][2]>>
              ELSE <<opt_to_header(N_method), a.method>>])

\* lines 234-244: the response headers of a response that is no redirect
response_headers(a, items) ==
  headers_of(a, IF location_has_reserved(a.location)
                THEN Append(items, <<N_location, clean_location(a.location)>>)
                ELSE items)

\* Unpoly.needs_cookie, given the outcome of self.options: the method is
\* tested first and the options are read only when it is not "GET"
needs_cookie(a, got) == a.method # N_GET /\ ~Unpoly_bool(got.opts)

\* lines 222-245: what is written for a protocol-aware request, after the
\* cookie call first
finalize_write(a, first, redirect_uri, serialized) ==
  IF serialized.exc # "" THEN [exc |-> serialized.exc, calls |-> first]
  ELSE IF Truthy(redirect_uri)
    THEN [ exc |-> "",
           calls |-> Append(first,
             RedirectCall(redirect_target(redirect_uri.s, serialized.items))) ]
  ELSE [ exc |-> "",
         calls |-> Append(first, HeadersCall(response_headers(a, serialized.items))) ]

\* finalize_response without the "if not self: return" of lines 219-220
finalize_response_no_guard(a, resp, got, ord) ==
  IF a.method # N_GET /\ got.exc # ""
  THEN [exc |-> got.exc, calls |-> <<>>]
  ELSE IF got.exc # ""
    THEN [exc |-> got.exc, calls |-> <<CookieCall(needs_cookie(a, got))>>]
  ELSE finalize_write(a, <<CookieCall(needs_cookie(a, got))>>,
                      adapter_redirect_uri(a, resp), Options_serialize(got.opts, ord))

\* Unpoly.finalize_response: the exception it ends with ("" if none) and the
\* adapter calls it makes, given the outcome got of reading self.options and
\* the order ord in which context_diff meets the elements of its sets
finalize_response(a, resp, got, ord) ==
  IF a.method # N_GET /\ got.exc # ""
  THEN [exc |-> got.exc, calls |-> <<>>]
  ELSE IF got.exc # ""
    THEN [exc |-> got.exc, calls |-> <<CookieCall(needs_cookie(a, got))>>]
  ELSE IF ~Unpoly_bool(got.opts)
    THEN [exc |-> "", calls |-> <<CookieCall(needs_cookie(a, got))>>]
  ELSE finalize_write(a, <<CookieCall(needs_cookie(a, got))>>,
                      adapter_redirect_uri(a, resp), Options_serialize(got.opts, ord))

(***************************************************************************)
(* Inputs: the strings of the modelled requests and handler calls          *)
(***************************************************************************)

J_k1 == <<"{","\"","k","\"",":","1","}">>

J_k1m2 == <<"{","\"","k","\"",":","1",",","\"","m","\"",":","2","}">>

J_open == <<"{">>

J_5 == <<"5">>

J_null == <<"n","u","l","l">>

J_diff == <<"{","\"","k","\"",":","n","u","l","l",",","\"","m","\"",":","2","}">>

J_42 == <<"4","2">>

J_Hi == <<"\"","H","i","\"">>

J_events == <<"[","{","\"","t","y","p","e","\"",":","\"","a","\"","}","]">>

J_word == <<"H","i">>

J_f1 == <<"{","\"","f","\"",":","1","}">>

\* {"k":null}
J_knull == <<"{","\"","k","\"",":","n","u","l","l","}">>

\* {"m": 2, "k": true}
J_m2kTrue ==
  <<"{","\"","m","\"",":"," ","2",","," ","\"","k","\"",":"," ","t","r","u","e","}">>

L_q == <<"/","p","?","a","=","1">>

L_up == <<"/","p","?","_","u","p","_","t","a","r","g","e","t","=","x">>

L_multi == <<"/","p","?","a","=","1","&","_","u","p","_","m","o","d","e","=","m","&","a","=","2">>

L_blank == <<"/","p","?","q","=","&","_","u","p","_","t","a","r","g","e","t","=","x">>

L_path == <<"/","a","_","u","p","_","b","?","x","=","1">>

\* a "_up_" parameter whose name is written with a percent escape
L_enc == <<"/","p","?","%","5","F","u","p","_","x","=","1","&","a","=","1">>

\* a header name that differs from X-Up-Target in case only
H_XUptarget == <<"X","-","U","p","-","t","a","r","g","e","t">>

S_ev == <<"u","s","e","r",":","c","r","e","a","t","e","d">>

S_id == <<"i","d">>

H_XUpFoo == <<"X","-","U","p","-","F","o","o">>

H_Accept == <<"A","c","c","e","p","t">>

P_up_foo == <<"_","u","p","_","f","o","o">>

P_page == <<"p","a","g","e">>

S_content == <<".","c","o","n","t","e","n","t">>

S_main == <<"m","a","i","n">>

S_new == <<".","n","e","w">>

S_3 == <<"3">>

S_Hi == <<"H","i">>

U_next == <<"/","n","e","x","t">>

U_next_q == <<"/","n","e","x","t","?","a","=","1">>

L_p == <<"/","p">>

S_root == <<"r","o","o","t">>

S_x == <<"x">>


\* request headers and parameters are dicts, held as the sequence of their
\* items: none of them
NoItems == <<>>

\* the header X-Up-<Opt> with value val
Hdr(opt, val) == <<<<opt_to_header(opt), val>>>>

\* the query parameter _up_<opt> with value val
Prm(opt, val) == <<<<opt_to_param(opt), val>>>>

VersionHdr == Hdr(N_version, S_3)

\* a request as an adapter sees it, and the response the handler returns:
\* redirect is the redirect target (None when the response is no redirect),
\* status the response's status code, cookies the request's cookie names
Request(kind, method, location, headers, params, redirect, status, cookies) ==
  [ kind |-> kind, method |-> method, location |-> location, headers |-> headers,
    params |-> params, redirect |-> redirect, status |-> status, cookies |-> cookies ]

\* cookie handling: both adapters, both methods, with and without the version
\* header, with and without a redirect, with and without the request cookie
CookieRequests ==
  { Request(kc[1], m, L_p, h, NoItems, r, IF Truthy(r) THEN 302 ELSE 200, kc[2]) :
      kc \in { <<"simple", {}>>, <<"django", {}>>, <<"django", {UP_METHOD_COOKIE}>> },
      m \in {N_GET, N_POST},
      h \in {NoItems, VersionHdr},
      r \in {PyNone, PyStr(U_next)} }

\* protocol-aware requests that differ in location and redirect target
LocationRequests ==
  { Request("simple", N_GET, l, VersionHdr, NoItems, PyNone, 200, {}) :
      l \in {L_q, L_up, L_multi, L_blank, L_path, L_enc} }
  \cup { Request("simple", N_GET, L_p, VersionHdr, NoItems, PyStr(U_next_q), 302, {}),
         Request("django", N_GET, L_up, VersionHdr, NoItems, PyStr(U_next), 200, {}) }

\* the option-carrying headers and parameters of the modelled requests
OptionInputs ==
  { [h |-> Hdr(N_context, J_k1), p |-> NoItems],
    [h |-> Hdr(N_context, J_k1m2), p |-> NoItems],
    [h |-> Hdr(N_context, J_m2kTrue), p |-> NoItems],
    [h |-> Hdr(N_context, J_knull), p |-> NoItems],
    [h |-> Hdr(N_target, S_content) \o <<<<H_XUptarget, S_main>>>>, p |-> NoItems],
    [h |-> Hdr(N_context, J_k1), p |-> Prm(N_context_diff, J_diff)],
    [h |-> Hdr(N_context, J_open), p |-> Prm(N_context_diff, J_diff)],
    [h |-> Hdr(N_context, J_5), p |-> NoItems],
    [h |-> Hdr(N_context, J_5), p |-> Prm(N_context_diff, J_diff)],
    [h |-> NoItems, p |-> Prm(N_context_diff, J_5)],
    [h |-> NoItems, p |-> Prm(N_context_diff, J_open)],
    [h |-> NoItems, p |-> Prm(N_accept_layer, J_42)],
    [h |-> Hdr(N_accept_layer, J_open) \o Hdr(N_dismiss_layer, J_null), p |-> NoItems],
    [h |-> Hdr(N_title, J_word) \o Hdr(N_events, J_open) \o Hdr(N_fail_context, J_open),
     p |-> NoItems],
    [h |-> Hdr(N_fail_context, J_f1), p |-> Prm(N_title, J_Hi) \o Prm(N_events, J_events)],
    [h |-> Hdr(N_events, J_5), p |-> NoItems],
    [h |-> <<<<H_XUpFoo, S_x>>>>, p |-> NoItems],
    [h |-> NoItems, p |-> <<<<P_up_foo, S_x>>>>],
    [h |-> Hdr(N_server_target, S_new), p |-> NoItems],
    [h |-> Hdr(N_initial_context, J_k1), p |-> NoItems],
    [h |-> <<<<H_Accept, S_x>>>>, p |-> <<<<P_page, S_3>>>>],
    [h |-> Hdr(N_target, S_content) \o Hdr(N_fail_target, S_main) \o Hdr(N_mode, S_root),
     p |-> Prm(N_target, S_main) \o Prm(N_validate, S_x)] }

\* protocol-aware requests that differ in the options they carry; the ones
\* with an unknown option name also as POST, as a redirect and without the
\* version header
OptionRequests ==
  { Request("simple", N_GET, L_p, VersionHdr \o o.h, o.p, PyNone, 200, {}) :
      o \in OptionInputs }
  \cup { Request("simple", N_POST, L_p, VersionHdr \o <<<<H_XUpFoo, S_x>>>>, NoItems, r, 200, {}) :
           r \in {PyNone, PyStr(U_next)} }
  \cup { Request("simple", N_GET, L_p, VersionHdr \o Hdr(N_context, J_k1),
                 Prm(N_accept_layer, J_42), PyStr(U_next), 302, {}) }
  \cup { Request("simple", m, L_p, <<<<H_XUpFoo, S_x>>>>, NoItems, PyStr(U_next), 302, {}) :
           m \in {N_GET, N_POST} }

Requests == CookieRequests \cup LocationRequests \cup OptionRequests

\* arguments of the handler's calls
Titles == {S_Hi}

EventTypes == {S_ev}

EmitOptions == {EmptyDict, <<<<S_id, PyInt(1)>>>>, <<<<N_type, PyStr(S_x)>>>>}

LayerEmitOptions ==
  {PyNone, PyDict(<<<<S_id, PyInt(1)>>>>), PyDict(<<<<N_layer, PyStr(S_root)>>>>)}

LayerValues == {PyNone, PyInt(42)}

Patterns == {N_star}

Targets == {S_new, S_main, <<>>}

CtxKeys == {<<"k">>, <<"m">>}

CtxValues == {PyNone, PyInt(2)}

(***************************************************************************)
(* The request cycle                                                       *)
(***************************************************************************)

\* Unpoly(adapter) for a request rq: SimpleAdapter(...) / DjangoAdapter(request)
\* and the response the handler will return
InitFor(rq) ==
    /\ adapter = [ kind |-> rq.kind, method |-> rq.method, location |-> rq.location,
                   headers |-> rq.headers, params |-> rq.params,
                   redirect_uri |-> IF rq.kind = "simple" THEN rq.redirect ELSE PyNone,
                   cookies |-> rq.cookies,
                   cookie |-> "None",
                   response_headers |-> [set |-> FALSE, v |-> NoMap],
                   response_redirect_uri |-> PyNone ]
    /\ response = [ status_code |-> rq.status,
                    headers |-> IF rq.kind = "django" /\ Truthy(rq.redirect)
                                THEN H_Location :> rq.redirect.s ELSE NoMap,
                    cookies |-> NoMap ]
    /\ cached = FALSE
    /\ options = DefaultOptions
    /\ calls = <<>>
    /\ lastOp = [op |-> "init", args |-> <<>>, exc |-> ""]
    /\ hist = [ accept |-> [called |-> FALSE, value |-> PyNone],
                dismiss |-> [called |-> FALSE, value |-> PyNone],
                target |-> [called |-> FALSE, value |-> PyNone],
                order |-> <<>> ]
    /\ nops = 0
    /\ finalized = FALSE

Init == \E rq \in Requests : InitFor(rq)

\* a handler operation as if it also called adapter.set_cookie
Handler_writes(op, args, got, res) ==
  /\ ~finalized
  /\ nops < MaxOps
  /\ nops' = nops + 1
  /\ IF got.exc # ""
     THEN /\ lastOp' = [op |-> op, args |-> args, exc |-> got.exc]
          /\ UNCHANGED <<cached, options>>
     ELSE /\ lastOp' = [op |-> op, args |-> args, exc |-> res.exc]
          /\ cached' = TRUE
          /\ options' = res.opts
  /\ adapter' = after_calls(adapter, response, <<CookieCall(TRUE)>>).a
  /\ response' = after_calls(adapter, response, <<CookieCall(TRUE)>>).resp
  /\ UNCHANGED <<calls, finalized>>

\* one handler operation op(args): self.options is read (and computed on first
\* use); when that raises, the operation raises and changes nothing; otherwise
\* res is the operation's outcome on the record read
Handler(op, args, got, res) ==
  /\ ~finalized
  /\ nops < MaxOps
  /\ nops' = nops + 1
  /\ IF got.exc # ""
     THEN /\ lastOp' = [op |-> op, args |-> args, exc |-> got.exc]
          /\ UNCHANGED <<cached, options>>
     ELSE /\ lastOp' = [op |-> op, args |-> args, exc |-> res.exc]
          /\ cached' = TRUE
          /\ options' = res.opts
  /\ UNCHANGED <<adapter, response, calls, finalized>>

\* reading an accessor (bool(up), up.version, up.target, up.layer, ...)
Access ==
  /\ \E got \in {OptGet} :
       /\ Handler("access", <<>>, got, Ok(got.opts))
       /\ UNCHANGED hist

SetTitle ==
  \E v \in Titles :
    /\ \E got \in {OptGet} :
         /\ Handler("set_title", <<PyStr(v)>>, got, set_title(got.opts, v))
         /\ UNCHANGED hist

Emit ==
  \E ty \in EventTypes, o \in EmitOptions :
    /\ \E got \in {OptGet} :
         /\ Handler("emit", <<PyStr(ty), PyDict(o)>>, got, Unpoly_emit(got.opts, ty, o))
         /\ UNCHANGED hist

LayerEmit ==
  \E ty \in EventTypes, o \in LayerEmitOptions :
    /\ \E got \in {OptGet} :
         /\ Handler("layer_emit", <<PyStr(ty), o>>, got, Layer_emit(got.opts, ty, o))
         /\ UNCHANGED hist

LayerAccept ==
  \E v \in LayerValues :
    /\ \E got \in {OptGet} :
         /\ Handler("accept", <<v>>, got, Layer_accept(got.opts, v))
         /\ hist' = IF got.exc = ""
               THEN [hist EXCEPT !.accept = [called |-> TRUE, value |-> v]] ELSE hist

LayerDismiss ==
  \E v \in LayerValues :
    /\ \E got \in {OptGet} :
         /\ Handler("dismiss", <<v>>, got, Layer_dismiss(got.opts, v))
         /\ hist' = IF got.exc = ""
               THEN [hist EXCEPT !.dismiss = [called |-> TRUE, value |-> v]] ELSE hist

CacheExpire ==
  \E pat \in Patterns :
    /\ \E got \in {OptGet} :
         /\ Handler("expire", <<PyStr(pat)>>, got, Cache_expire(got.opts, pat))
         /\ UNCHANGED hist

CacheKeep ==
  /\ \E got \in {OptGet} :
       /\ Handler("keep", <<>>, got, Cache_keep(got.opts))
       /\ UNCHANGED hist

SetTarget ==
  \E tg \in Targets :
    /\ \E got \in {OptGet} :
         /\ Handler("set_target", <<PyStr(tg)>>, got, set_target(got.opts, tg))
         /\ hist' = IF got.exc = ""
               THEN [hist EXCEPT !.target = [called |-> TRUE, value |-> PyStr(tg)]]
               ELSE hist

ContextSet ==
  \E k \in CtxKeys, v \in CtxValues :
    /\ \E got \in {OptGet} :
         /\ Handler("context_set", <<PyStr(k), v>>, got, context_set(got.opts, k, v))
         /\ UNCHANGED hist

ContextDel ==
  \E k \in CtxKeys :
    /\ \E got \in {OptGet} :
         /\ Handler("context_del", <<PyStr(k)>>, got, context_del(got.opts, k))
         /\ UNCHANGED hist

FailContextSet ==
  \E k \in {<<"k">>}, v \in {PyInt(1)} :
    /\ \E got \in {OptGet} :
         /\ Handler("fail_context_set", <<PyStr(k), v>>, got, fail_context_set(got.opts, k, v))
         /\ UNCHANGED hist

\* the state after finalize_response read the options (outcome got) and
\* ended with outcome r
Finalized(got, r) ==
  /\ adapter' = after_calls(adapter, response, r.calls).a
  /\ response' = after_calls(adapter, response, r.calls).resp
  /\ calls' = calls \o r.calls
  /\ lastOp' = [op |-> "finalize_response", args |-> <<>>, exc |-> r.exc]
  /\ cached' = (cached \/ got.exc = "")
  /\ options' = IF got.exc = "" THEN got.opts ELSE options

\* up.finalize_response(response), once, after the handler
Finalize ==
  /\ ~finalized
  /\ \E got \in {OptGet} :
       \E ord \in set_orders(got.opts) :
         /\ Finalized(got, finalize_response(adapter, response, got, ord))
         /\ hist' = [hist EXCEPT !.order = ord]
  /\ finalized' = TRUE
  /\ UNCHANGED nops

Next ==
  \/ Access
  \/ SetTitle
  \/ Emit
  \/ LayerEmit
  \/ LayerAccept
  \/ LayerDismiss
  \/ CacheExpire
  \/ CacheKeep
  \/ SetTarget
  \/ ContextSet
  \/ ContextDel
  \/ FailContextSet
  \/ Finalize

Spec == Init /\ [][Next]_vars

(***************************************************************************)
(* Properties                                                              *)
(***************************************************************************)

\* the context the Options record was constructed with: the decoded "context"
\* option of the request, before any passed context_diff is applied
ConstructedContext ==
  KwArg(parsed_options(raw_options(adapter)), N_context, PyDict(EmptyDict))

\* the record has been computed and both contexts are mappings
ContextsAreMappings ==
  cached /\ IsDict(options.initial_context) /\ IsDict(options.context)

\* C1 and C2 disagree on key k: k is in only one of them, or in both with
\* unequal values
Disagree(c1, c2, k) ==
  \/ DictHas(c1, k) /\ ~DictHas(c2, k)
  \/ DictHas(c2, k) /\ ~DictHas(c1, k)
  \/ DictHas(c1, k) /\ DictHas(c2, k) /\ ~PyEq(DictGet(c1, k), DictGet(c2, k))

\* C1: initial_context stays the snapshot taken at construction, and
\* context_diff has exactly the keys on which the snapshot and the current
\* context disagree, each once; a key only in the snapshot maps to None,
\* every other key of the diff maps to the current context's value; this in
\* whatever order the key sets are iterated.
C1_ContextDiffExact ==
  ContextsAreMappings =>
    /\ options.initial_context = ConstructedContext
    /\ \A diff \in {context_diff(options, ord) : ord \in set_orders(options)} :
         /\ diff.exc = ""
         /\ DictKeys(diff.v) =
              { k \in DictKeys(options.initial_context.d) \cup DictKeys(options.context.d) :
                  Disagree(options.initial_context.d, options.context.d, k) }
         /\ Len(diff.v) = Cardinality(DictKeys(diff.v))
         /\ \A k \in DictKeys(diff.v) :
              IF DictHas(options.context.d, k)
              THEN DictGet(diff.v, k) = DictGet(options.context.d, k)
              ELSE DictGet(diff.v, k) = PyNone

\* a context in which one key was deleted and one changed
C1_Witness ==
  /\ ContextsAreMappings
  /\ nops > 0
  /\ \E k \in DictKeys(options.initial_context.d) : ~DictHas(options.context.d, k)
  /\ \E k \in DictKeys(options.context.d) :
       /\ DictHas(options.initial_context.d, k)
       /\ ~PyEq(DictGet(options.context.d, k), DictGet(options.initial_context.d, k))

\* the outcomes Options.serialize may have on the record opts, one for each
\* order in which context_diff may meet the elements of its sets
Serializations(opts) ==
  {Options_serialize(opts, ord) : ord \in set_orders(opts)}

\* the raw option map that carries C1 as "context" and the serialized diff of
\* the record, taken from the serialized output ser, as "context_diff"
RoundTripInput(opts, ser) ==
  (N_context :> serialize_data(opts.initial_context))
  @@ (IF ItemsHas(ser.items, N_context)
      THEN N_context_diff :> ItemsGet(ser.items, N_context)
      ELSE NoMap)

\* the outcomes of Options.parse on those maps
RoundTrips(opts) ==
  {Options_parse(RoundTripInput(opts, ser)) : ser \in Serializations(opts)}

\* the keys that C1 holds with a value other than None and C2 holds with None
NulledKeys(opts) ==
  { k \in DictKeys(opts.initial_context.d) \cap DictKeys(opts.context.d) :
      DictGet(opts.context.d, k) = PyNone /\ DictGet(opts.initial_context.d, k) # PyNone }

\* C2 as claimed: serializing and re-parsing yields a context equal to C2,
\* values of None included.
C2_RoundTripOriginal ==
  ContextsAreMappings =>
    \A rt \in RoundTrips(options) :
      rt.exc = "" /\ PyEq(rt.opts.context, options.context)

\* C2 amended: serializing and re-parsing yields C2 without the keys that C1
\* holds with a non-None value and C2 holds with None (the diff's null is
\* read as a deletion); it yields C2 itself when there is no such key.
C2_RoundTripAmended ==
  ContextsAreMappings =>
    \A rt \in RoundTrips(options) :
      /\ rt.exc = ""
      /\ PyEq(rt.opts.context,
              PyDict(SelectSeq(options.context.d,
                               LAMBDA it : it[1] \notin NulledKeys(options))))
      /\ NulledKeys(options) = {} => PyEq(rt.opts.context, options.context)

\* a round trip through a diff that deletes one key and adds another with the
\* value None, with no key nulled
C2_Witness ==
  /\ ContextsAreMappings
  /\ NulledKeys(options) = {}
  /\ \E k \in DictKeys(options.initial_context.d) : ~DictHas(options.context.d, k)
  /\ \E k \in DictKeys(options.context.d) :
       ~DictHas(options.initial_context.d, k) /\ DictGet(options.context.d, k) = PyNone
  /\ \A rt \in RoundTrips(options) : PyEq(rt.opts.context, options.context)

\* whether the request carried the option opt (as a header or a parameter)
Carried(opt) == opt \in DOMAIN raw_options(adapter)

\* the serialized outputs the current record may have: the items of every
\* outcome of serialize that is no exception
Serialized ==
  IF cached THEN {ser.items : ser \in {x \in Serializations(options) : x.exc = ""}}
  ELSE {}

\* C3 as claimed: accept_layer (dismiss_layer) is in the serialized output if
\* and only if Layer.accept (Layer.dismiss) was called in the cycle.
C3_LayerFieldsOriginal ==
  \A items \in Serialized :
    /\ ItemsHas(items, N_accept_layer) <=> hist.accept.called
    /\ ItemsHas(items, N_dismiss_layer) <=> hist.dismiss.called

\* the value the field must serialize: the last call's, or else the decoded
\* value the request carried in its raw option map raw
ExpectedLayer(h, opt, raw) ==
  IF h.called THEN h.value ELSE decode_option(opt, raw[opt])

\* the amended rule for one of the two fields, h being the record of the
\* calls of its method: the field is among items exactly when the method was
\* called or the request carried the option, with the value of the last
\* call, null for None, or else the decoded value of the request
LayerFieldRule(items, opt, h, raw) ==
  /\ ItemsHas(items, opt) <=> (h.called \/ opt \in DOMAIN raw)
  /\ ItemsHas(items, opt) =>
       /\ ItemsGet(items, opt) = json_dumps(ExpectedLayer(h, opt, raw))
       /\ (h.called /\ h.value = PyNone) => ItemsGet(items, opt) = <<"n","u","l","l">>

\* C3 amended: accept_layer (dismiss_layer) is in the serialized output if and
\* only if Layer.accept (Layer.dismiss) was called in the cycle or the request
\* carried the option; it is the serialized value of the last call, the
\* literal null for a call with None, and without a call the serialized
\* decoded value of the request's option.
C3_LayerFieldsAmended ==
  \A items \in Serialized :
    /\ LayerFieldRule(items, N_accept_layer, hist.accept, raw_options(adapter))
    /\ LayerFieldRule(items, N_dismiss_layer, hist.dismiss, raw_options(adapter))

\* accept(None) called last, on a request that carried accept_layer = 42, and
\* dismiss(42) called: null and 42 are both serialized
C3_Witness ==
  \E items \in Serialized :
    /\ hist.accept.called /\ hist.accept.value = PyNone
    /\ ItemsHas(items, N_accept_layer)
    /\ ItemsGet(items, N_accept_layer) = <<"n","u","l","l">>
    /\ \/ Carried(N_accept_layer)
       \/ hist.dismiss.called /\ ItemsGet(items, N_dismiss_layer) = <<"4","2">>

\* whether the request is protocol-aware: its version option is not empty
Aware ==
  /\ N_version \in DOMAIN raw_options(adapter)
  /\ Len(raw_options(adapter)[N_version]) > 0

\* the calls finalize_response made to set_headers or set_redirect_uri
WritingCalls == SelectSeq(calls, LAMBDA c : c.fn # "set_cookie")

\* C4 as claimed: finalize_response calls set_cookie exactly once and before
\* any other adapter call, with a true argument exactly when the method is not
\* "GET" and the version option is empty; the Django adapter then sets
\* _up_method to the method, or deletes it only if the request carried it.
C4_CookieOnceFirst ==
  finalized =>
    /\ Len(calls) >= 1
    /\ calls[1].fn = "set_cookie"
    /\ Len(WritingCalls) = Len(calls) - 1
    /\ calls[1].flag <=> (adapter.method # N_GET /\ ~Aware)
    /\ adapter.kind = "django" =>
         IF calls[1].flag
         THEN /\ UP_METHOD_COOKIE \in DOMAIN response.cookies
              /\ response.cookies[UP_METHOD_COOKIE]
                   = [value |-> adapter.method, deleted |-> FALSE]
         ELSE /\ UP_METHOD_COOKIE \in DOMAIN response.cookies
                   <=> UP_METHOD_COOKIE \in adapter.cookies
              /\ UP_METHOD_COOKIE \in DOMAIN response.cookies
                   => response.cookies[UP_METHOD_COOKIE].deleted

\* C4, where it does hold: in every call of finalize_response that could read
\* the options of a request that is not "GET", and in every call on a "GET"
\* request.
C4_CookieWhenOptionsRead ==
  (finalized /\ (cached \/ adapter.method = N_GET)) => C4_CookieOnceFirst

\* C5: finalize_response on a request that is not protocol-aware calls no
\* adapter method other than set_cookie and leaves the written headers, the
\* written redirect URI and the response's headers and status as they were,
\* whatever the handler did and whether or not the response is a redirect.
C5_NotAwareWritesNothing ==
  [][(lastOp'.op = "finalize_response" /\ ~Aware) =>
       /\ \A i \in 1..Len(calls') : calls'[i].fn = "set_cookie"
       /\ Len(calls') <= 1
       /\ adapter'.response_headers = adapter.response_headers
       /\ adapter'.response_redirect_uri = adapter.response_redirect_uri
       /\ response'.headers = response.headers
       /\ response'.status_code = response.status_code]_vars

\* a finalized request without version whose handler set a title and accepted
\* the layer and whose response is a redirect: the cookie call is the only one
C5_Witness ==
  /\ finalized /\ ~Aware
  /\ cached /\ hist.accept.called /\ options.title = PyStr(S_Hi)
  /\ Truthy(adapter_redirect_uri(adapter, response))
  /\ adapter.method = N_POST
  /\ calls = <<CookieCall(TRUE)>>

\* the query fields the claim expects for the serialized items: one
\* "_up_<option>=<value>" per item, with context under the name context_diff
RedirectFields(items) ==
  { ParamPrefix
      \o (IF items[i][1] = N_context THEN N_context_diff ELSE items[i][1])
      \o <<"=">> \o quote_plus(items[i][2]) : i \in 1..Len(items) }

\* whether written is uri followed by exactly the fields of items, joined with
\* "&" when uri contains "?" and with "?" otherwise; uri itself when there is
\* no item
IsRedirectOf(written, uri, items) ==
  IF Len(items) = 0 THEN written = uri
  ELSE /\ str_startswith(written,
            uri \o (IF str_contains(uri, <<"?">>) THEN <<"&">> ELSE <<"?">>))
       /\ Len(str_split(str_from(written, Len(uri) + 1), "&")) = Len(items)
       /\ { str_split(str_from(written, Len(uri) + 1), "&")[i] : i \in 1..Len(items) }
            = RedirectFields(items)

\* the redirect target of the response, None when it is no redirect
RedirectUri == adapter_redirect_uri(adapter, response)

\* C6 as claimed: on a protocol-aware request whose response is a redirect,
\* finalize_response calls set_redirect_uri and never set_headers, with the
\* original URI followed by one "_up_<option>" parameter per serialized
\* option ("&" after a URI with "?", "?" otherwise, context as
\* "_up_context_diff", the URI unchanged when nothing is serialized).
C6_RedirectParams ==
  [][(lastOp'.op = "finalize_response" /\ Aware /\ Truthy(RedirectUri)) =>
       /\ \A i \in 1..Len(calls') : calls'[i].fn # "set_headers"
       /\ \E i \in 1..Len(calls') : calls'[i].fn = "set_redirect_uri"
       /\ cached' /\ Options_serialize(options', hist'.order).exc = ""
       /\ \A i \in 1..Len(calls') :
            calls'[i].fn = "set_redirect_uri" =>
              /\ IsRedirectOf(calls'[i].uri, RedirectUri.s,
                              Options_serialize(options', hist'.order).items)
              /\ ~str_contains(calls'[i].uri, opt_to_param(N_context) \o <<"=">>)
              /\ after_calls(adapter, response, calls').a.kind = "simple" =>
                   adapter'.response_redirect_uri = PyStr(calls'[i].uri)]_vars

\* C6, where it does hold: whenever finalize_response could read the options
\* and serialize them.
C6_RedirectWhenSerialized ==
  [][(/\ lastOp'.op = "finalize_response" /\ Aware /\ Truthy(RedirectUri)
      /\ lastOp'.exc = "") =>
       /\ Len(calls') = 2 /\ calls'[2].fn = "set_redirect_uri"
       /\ IsRedirectOf(calls'[2].uri, RedirectUri.s,
                       Options_serialize(options', hist'.order).items)
       /\ ~str_contains(calls'[2].uri, opt_to_param(N_context) \o <<"=">>)]_vars

\* the "&"-separated fields of the query string of a location
QueryFields(loc) ==
  IF str_contains(loc, <<"?">>)
  THEN SelectSeq(str_split(str_split1(loc, "?")[2], "&"), LAMBDA f : Len(f) > 0)
  ELSE <<>>

\* whether a query field is a parameter whose name starts with "_up_"
IsReservedField(f) == str_startswith(str_split1(f, "=")[1], ParamPrefix)

\* the fields of a location that are no "_up_" parameter
KeptFields(loc) == SelectSeq(QueryFields(loc), LAMBDA f : ~IsReservedField(f))

\* the header name X-Up-Location
H_XUpLocation == opt_to_header(N_location)

\* C7 as claimed: the headers written for a protocol-aware request whose
\* response is no redirect contain X-Up-Location exactly when the location's
\* query has a parameter whose name starts with "_up_"; its value is the path
\* followed by every other parameter of the query with all its values, and
\* by no "?" when none remains.
C7_LocationHeader ==
  \A i \in 1..Len(calls) :
    (Aware /\ ~Truthy(RedirectUri) /\ calls[i].fn = "set_headers") =>
      /\ H_XUpLocation \in DOMAIN calls[i].headers
           <=> \E j \in 1..Len(QueryFields(adapter.location)) :
                 IsReservedField(QueryFields(adapter.location)[j])
      /\ H_XUpLocation \in DOMAIN calls[i].headers =>
           calls[i].headers[H_XUpLocation]
             = str_split1(adapter.location, "?")[1]
               \o (IF Len(KeptFields(adapter.location)) = 0 THEN <<>>
                   ELSE <<"?">> \o str_join(<<"&">>, KeptFields(adapter.location)))

(***************************************************************************)
(* Options.parse on raw option maps: combinations of the seven structured  *)
(* options in which each one is decodable (or absent) or not decodable     *)
(***************************************************************************)

J_emptydict == <<"{","}">>

J_emptylist == <<"[","]">>

ContextHeaders ==
  {NoItems, Hdr(N_context, J_k1), Hdr(N_context, J_open), Hdr(N_context, J_5)}

ContextDiffParams ==
  {NoItems, Prm(N_context_diff, J_diff), Prm(N_context_diff, J_null),
   Prm(N_context_diff, J_5)}

EventsHeaders == {NoItems, Hdr(N_events, J_events), Hdr(N_events, J_open)}

FailContextHeaders ==
  {NoItems, Hdr(N_fail_context, J_f1), Hdr(N_fail_context, J_word)}

DismissHeaders == {Hdr(N_dismiss_layer, J_42), Hdr(N_dismiss_layer, J_null)}

AcceptHeaders == {NoItems, Hdr(N_accept_layer, J_open)}

TitleHeaders == {Hdr(N_title, J_Hi), Hdr(N_title, J_word)}

ParseRequests ==
  { Request("simple", N_GET, L_p,
            VersionHdr \o Hdr(N_target, S_main) \o c \o e \o f \o d \o a \o t,
            cd, PyNone, 200, {}) :
      c \in ContextHeaders, cd \in ContextDiffParams, e \in EventsHeaders,
      f \in FailContextHeaders, d \in DismissHeaders, a \in AcceptHeaders,
      t \in TitleHeaders }

InitParse == \E rq \in ParseRequests : InitFor(rq)

\* the handler only reads the options
NextParse == Access

SpecParse == InitParse /\ [][NextParse]_vars

\* the raw option map of the request
Raw == raw_options(adapter)

\* the request carries the structured option opt with a string that
\* deserialize_data maps to None
MapsToNull(opt) ==
  opt \in StructuredNames /\ opt \in DOMAIN Raw /\ IsNone(deserialize_data(Raw[opt]))

\* the raw map with every such string replaced by a well-formed one: "{}" for
\* context and fail_context, "[]" for events, "null" for title, accept_layer
\* and dismiss_layer, and with such a context_diff left out
Substituted ==
  [ o \in { x \in DOMAIN Raw : ~(x = N_context_diff /\ MapsToNull(x)) } |->
      IF ~MapsToNull(o) THEN Raw[o]
      ELSE IF o \in {N_context, N_fail_context} THEN J_emptydict
      ELSE IF o = N_events THEN J_emptylist
      ELSE J_null ]

\* every structured value the request carries maps to None or has the shape
\* its field declares
WellShaped ==
  \A o \in (DOMAIN Raw) \cap {N_context, N_context_diff, N_fail_context, N_events} :
    \/ MapsToNull(o)
    \/ IF o = N_events THEN IsList(deserialize_data(Raw[o]))
       ELSE IsDict(deserialize_data(Raw[o]))

\* the request carries a context_diff that decodes to a non-empty mapping
HasDiff ==
  /\ N_context_diff \in DOMAIN Raw
  /\ IsDict(deserialize_data(Raw[N_context_diff]))
  /\ Truthy(deserialize_data(Raw[N_context_diff]))

\* C8 as claimed: Options.parse returns a record for every raw option map over
\* the recognised option names, whatever strings the seven structured options
\* hold, and in that record a context or fail_context whose string
\* deserialize_data maps to None is the empty mapping, such a context_diff
\* changes nothing (the context is the initial context), such events are the
\* empty sequence and such a title, accept_layer or dismiss_layer is None.
C8_ParseNeverFails ==
  lastOp.op = "access" =>
    /\ lastOp.exc = ""
    /\ cached
    /\ MapsToNull(N_context) => options.context = PyDict(EmptyDict)
    /\ MapsToNull(N_fail_context) => options.fail_context = PyDict(EmptyDict)
    /\ MapsToNull(N_context_diff) => options.context = options.initial_context
    /\ MapsToNull(N_events) => options.events = PyList(<<>>)
    /\ MapsToNull(N_title) => options.title = PyNone
    /\ MapsToNull(N_accept_layer) => options.accept_layer = PyNone
    /\ MapsToNull(N_dismiss_layer) => options.dismiss_layer = PyNone

\* C8, what the code does instead: the outcome of Options.parse is that of the
\* map with every string that deserialize_data maps to None replaced by its
\* well-formed substitute, so parse raises exactly when it raises for the
\* substituted map (lines 80-87 on a decoded context_diff or context that is
\* no mapping); it returns a record when every other structured value has its
\* declared shape, and in a returned record such a context is the empty
\* mapping with the passed diff applied to it, such a context_diff changes
\* nothing, such a fail_context is the empty mapping, such events are the
\* empty sequence and such a title, accept_layer or dismiss_layer is None.
C8_ParseSubstitutes ==
  lastOp.op = "access" =>
    /\ Options_parse(Raw) = Options_parse(Substituted)
    /\ WellShaped => lastOp.exc = ""
    /\ lastOp.exc = "" =>
         /\ cached
         /\ MapsToNull(N_context) =>
              /\ options.initial_context = PyDict(EmptyDict)
              /\ options.context = IF HasDiff THEN deserialize_data(Raw[N_context_diff])
                                   ELSE PyDict(EmptyDict)
         /\ MapsToNull(N_context_diff) => options.context = options.initial_context
         /\ MapsToNull(N_fail_context) => options.fail_context = PyDict(EmptyDict)
         /\ MapsToNull(N_events) => options.events = PyList(<<>>)
         /\ MapsToNull(N_title) => options.title = PyNone
         /\ MapsToNull(N_accept_layer) => options.accept_layer = PyNone
         /\ MapsToNull(N_dismiss_layer) => options.dismiss_layer = PyNone

\* a record parsed from a map in which all seven structured options hold a
\* string that maps to None
C8_Witness ==
  /\ lastOp.op = "access" /\ lastOp.exc = "" /\ cached
  /\ \A o \in StructuredNames : MapsToNull(o)
  /\ Raw[N_context] = J_open /\ Raw[N_title] = J_word
  /\ options.context = PyDict(EmptyDict) /\ options.events = PyList(<<>>)
  /\ options.title = PyNone

\* the option names of the request that the Options constructor does not
\* declare (context_diff is taken out before the record is constructed)
UnknownOpts == (DOMAIN Raw) \ (InitNames \cup {N_context_diff})

\* the raw option map of the request without the headers and parameters of
\* those names
KnownRaw == [o \in (DOMAIN Raw) \cap (InitNames \cup {N_context_diff}) |-> Raw[o]]

\* C9 as claimed: for a request that carries an option name the constructor
\* does not declare, building the options succeeds and yields the record of
\* the request without that header or parameter.
C9_UnknownIgnored ==
  (lastOp.op = "access" /\ nops = 1 /\ UnknownOpts # {}
     /\ Options_parse(KnownRaw).exc = "") =>
    /\ lastOp.exc = ""
    /\ cached
    /\ options = Options_parse(KnownRaw).opts

\* C9, what the code does instead: building the options of such a request
\* raises TypeError, every time it is tried.
C9_UnknownRaises ==
  (lastOp.op = "access" /\ UnknownOpts # {}) => (lastOp.exc = "TypeError" /\ ~cached)

\* the events of the record a call reads
EventsRead == OptGet.opts.events.l

\* C10 as claimed: Layer.emit(type, options), for every options mapping,
\* appends exactly one event whose layer is "current" to the end of the events
\* and leaves the earlier events unchanged and in order; it does not fail when
\* options has a "layer" key.
C10_LayerEmitAppends ==
  [][(/\ lastOp'.op = "layer_emit" /\ nops' = nops + 1
      /\ OptGet.exc = "" /\ IsList(OptGet.opts.events)) =>
       /\ lastOp'.exc = ""
       /\ IsList(options'.events)
       /\ Len(options'.events.l) = Len(EventsRead) + 1
       /\ SubSeq(options'.events.l, 1, Len(EventsRead)) = EventsRead
       /\ IsDict(options'.events.l[Len(EventsRead) + 1])
       /\ DictHas(options'.events.l[Len(EventsRead) + 1].d, N_layer)
       /\ DictGet(options'.events.l[Len(EventsRead) + 1].d, N_layer)
            = PyStr(N_current)]_vars

\* C10, where it does hold: for every options mapping without a "layer" key,
\* and for no options at all.
C10_LayerEmitWithoutLayerKey ==
  [][(/\ lastOp'.op = "layer_emit" /\ nops' = nops + 1
      /\ OptGet.exc = "" /\ IsList(OptGet.opts.events)
      /\ ~(IsDict(lastOp'.args[2]) /\ DictHas(lastOp'.args[2].d, N_layer))) =>
       /\ lastOp'.exc = ""
       /\ Len(options'.events.l) = Len(EventsRead) + 1
       /\ SubSeq(options'.events.l, 1, Len(EventsRead)) = EventsRead
       /\ DictGet(options'.events.l[Len(EventsRead) + 1].d, N_layer) = PyStr(N_current)
       /\ DictGet(options'.events.l[Len(EventsRead) + 1].d, N_type) = lastOp'.args[1]]_vars

\* C11: every operation other than finalize_response, whether it returns or
\* raises, leaves the adapter and the response as they were; until
\* finalize_response is called no adapter method has been called, no cookie,
\* response header or redirect URI has been written, and the response has no
\* cookie set.
C11_NothingWrittenBeforeFinalize ==
  [][~finalized' =>
       /\ adapter' = adapter
       /\ response' = response
       /\ calls' = <<>>
       /\ adapter'.cookie = "None"
       /\ ~adapter'.response_headers.set
       /\ adapter'.response_redirect_uri = PyNone
       /\ response'.cookies = NoMap
       /\ \A h \in DOMAIN response'.headers : ~str_startswith(h, HeaderPrefix)]_vars

\* a cycle not yet finalized in which the handler set a title and accepted the
\* layer on a protocol-aware request: nothing has been written
C11_Witness ==
  /\ ~finalized /\ nops >= 2 /\ Aware
  /\ cached /\ hist.accept.called /\ options.title = PyStr(S_Hi)
  /\ calls = <<>> /\ adapter.cookie = "None" /\ ~adapter.response_headers.set

\* the plain option opt of the raw option map raw, "" when it has none
RawOr(raw, opt) == IF opt \in DOMAIN raw THEN raw[opt] ELSE <<>>

\* the target and the fail_target the request sent, "" when it sent none
RequestTarget == RawOr(Raw, N_target)

RequestFailTarget == RawOr(Raw, N_fail_target)

\* the handler's last target assignment was of a non-empty string
TargetAssigned == hist.target.called /\ Truthy(hist.target.value)

\* the rule for a record whose request sent the target sent and the
\* fail_target fail, sers being its serialized outputs
TargetRule(sent, fail, sers) ==
  IF TargetAssigned
  THEN /\ Unpoly_target(options) = hist.target.value
       /\ Unpoly_fail_target(options) = hist.target.value
       /\ \A items \in sers :
            /\ ItemsHas(items, N_target) <=> hist.target.value.s # sent
            /\ ItemsHas(items, N_target) =>
                 ItemsGet(items, N_target) = hist.target.value.s
  ELSE /\ Unpoly_target(options) = PyStr(sent)
       /\ Unpoly_fail_target(options) = PyStr(fail)
       /\ \A items \in sers : ~ItemsHas(items, N_target)

\* C12: once the handler has assigned a non-empty target T (its last
\* assignment), the target and fail_target getters both return T and the
\* serialized output has target = T exactly when T differs from the request's
\* target; when it never assigned one, or assigned the empty string last, the
\* getters return the request's target and fail_target ("" when none was
\* sent) and no target is serialized.
C12_TargetOverride ==
  cached => TargetRule(RequestTarget, RequestFailTarget, Serialized)

\* the handler assigned ".new" on a request that sent another target and
\* another fail_target: both getters return ".new" and it is serialized
C12_Witness ==
  /\ cached /\ TargetAssigned
  /\ hist.target.value = PyStr(S_new)
  /\ RequestTarget = S_main /\ RequestFailTarget = S_main
  /\ Unpoly_fail_target(options) = PyStr(S_new)
  /\ \E items \in Serialized : ItemsGet(items, N_target) = S_new

\* the handler assigned the target the request sent: nothing is serialized
C12_WitnessSame ==
  /\ cached /\ TargetAssigned
  /\ hist.target.value.s = RequestTarget
  /\ \E items \in Serialized : ~ItemsHas(items, N_target)

\* the four structured fields of the record have the types they declare
TypesHold ==
  /\ IsDict(options.context)
  /\ IsDict(options.initial_context)
  /\ IsDict(options.fail_context)
  /\ IsList(options.events)

\* C13 as claimed: whenever the options of a request are built, whatever
\* strings its recognised headers and parameters hold, context,
\* initial_context and fail_context are mappings and events is a sequence,
\* also after any sequence of handler operations.
C13_TypeInvariant == cached => TypesHold

\* C13, where it does hold: for every request whose context, context_diff,
\* fail_context and events each are absent, not decodable, or decode to the
\* type their field declares.
C13_TypesWhenShaped == (cached /\ WellShaped) => TypesHold
====
